---- MODULE Spec2Model ----
(***************************************************************************)
(* Model of the RFQ service of JPrier/Terra (backend/crates): the          *)
(* application service RfqService (create_rfq, post_message) over the      *)
(* S3 repositories, the S3 idempotency service and the SES email service.  *)
(* Strings are sequences of one-character strings; instants are integer    *)
(* clock ticks, TicksPerSec of them to a second.                           *)
(***************************************************************************)
EXTENDS Integers, Sequences, FiniteSets, TLC

(***************************************************************************)
(* Bounds of the model.                                                    *)
(***************************************************************************)
NumProcs == 2
NumCalls == 3
MaxFaults == 1
MaxClock == 1
TicksPerSec == 2

\* Rust Option<T>: None is the empty sequence, Some(x) the one-element one.
None == << >>
Some(x) == <<x>>
IsSome(o) == Len(o) = 1
Unwrap(o) == o[1]

(***************************************************************************)
(* Character classes used by the regular expressions of value_objects.rs.  *)
(***************************************************************************)
Lower == {"a","b","c","d","e","f","g","h","i","j","k","l","m",
          "n","o","p","q","r","s","t","u","v","w","x","y","z"}
Upper == {"A","B","C","D","E","F","G","H","I","J","K","L","M",
          "N","O","P","Q","R","S","T","U","V","W","X","Y","Z"}
Digit == {"0","1","2","3","4","5","6","7","8","9"}
Alpha == Lower \cup Upper
Alnum == Alpha \cup Digit

AllIn(s, class) == \A i \in 1..Len(s) : s[i] \in class
Contains(s, c) == \E i \in 1..Len(s) : s[i] = c
StartsWith(s, p) == Len(s) >= Len(p) /\ SubSeq(s, 1, Len(p)) = p

(***************************************************************************)
(* domain/src/value_objects.rs: each constructor is modelled by the        *)
(* predicate "new returns Ok"; on Ok the value object wraps the input      *)
(* unchanged and as_str / as_u64 return it.                                *)
(***************************************************************************)
\* ^[a-zA-Z0-9._%+-]+@[a-zA-Z0-9.-]+\.[a-zA-Z]{2,}$
Email_new(email) ==
    \E at \in 1..Len(email) : \E dot \in 1..Len(email) :
        /\ email[at] = "@"
        /\ email[dot] = "."
        /\ at >= 2
        /\ dot >= at + 2
        /\ Len(email) >= dot + 2
        /\ AllIn(SubSeq(email, 1, at - 1), Alnum \cup {".", "_", "%", "+", "-"})
        /\ AllIn(SubSeq(email, at + 1, dot - 1), Alnum \cup {".", "-"})
        /\ AllIn(SubSeq(email, dot + 1, Len(email)), Alpha)

IdMaxLen == 50

TenantId_new(id) ==
    /\ ~(Len(id) = 0 \/ Len(id) > IdMaxLen)
    /\ AllIn(id, Alnum \cup {"_", "-"})

RfqId_new(id) == ~(Len(id) = 0 \/ Len(id) > IdMaxLen)

ManufacturerId_new(id) ==
    /\ ~(Len(id) = 0 \/ Len(id) > IdMaxLen)
    /\ StartsWith(id, <<"m","f","g","_">>)
    /\ Len(id) >= 5
    /\ AllIn(SubSeq(id, 5, Len(id)), Alnum \cup {"_", "-"})

AllowedContentTypes == {"image/jpeg", "image/png", "image/webp", "image/avif", "application/pdf"}

ContentType_new(content_type) == content_type \in AllowedContentTypes

MAX_SIZE_BYTES == 15 * 1024 * 1024

\* A constructor that refuses the largest size too.
FileSize_new_below_max(size_bytes) ==
    /\ size_bytes # 0
    /\ size_bytes < MAX_SIZE_BYTES

FileSize_new(size_bytes) ==
    /\ size_bytes # 0
    /\ ~(size_bytes > MAX_SIZE_BYTES)

MAX_LENGTH == 8000

MessageBody_new(body) ==
    /\ Len(body) # 0
    /\ ~(Len(body) > MAX_LENGTH)
    /\ ~(Contains(body, "<") /\ Contains(body, ">"))


(***************************************************************************)
(* Instants (chrono DateTime<Utc>) are clock ticks.  to_rfc3339 keeps the  *)
(* sub-second part, the S3 key format "%Y-%m-%dT%H-%M-%SZ" drops it.       *)
(***************************************************************************)
to_rfc3339(t) == <<t \div TicksPerSec, t % TicksPerSec>>
parse_from_rfc3339(s) == s[1] * TicksPerSec + s[2]
format_key_ts(t) == t \div TicksPerSec

(***************************************************************************)
(* serde_json: a JSON object is the sequence of its <<name, value>>        *)
(* members in the order the serializer writes them.                        *)
(***************************************************************************)
JsonHas(obj, name) == \E i \in 1..Len(obj) : obj[i][1] = name
JsonGet(obj, name) == obj[CHOOSE i \in 1..Len(obj) : obj[i][1] = name][2]

\* #[serde(rename_all = ...)]: the names the enum variants are written as.
EventAuthor_names == [Buyer |-> "buyer", Manufacturer |-> "manufacturer", System |-> "system"]
StatusType_names ==
    [ RfqCreated |-> "rfq_created", VendorViewed |-> "vendor_viewed",
      VendorReplied |-> "vendor_replied", BuyerViewed |-> "buyer_viewed",
      Closed |-> "closed", Archived |-> "archived" ]
RfqStatus_names == [Open |-> "open", Archived |-> "archived", Closed |-> "closed"]
ParticipantRole_names == [Buyer |-> "buyer", Manufacturer |-> "manufacturer"]

\* Deserialization of a renamed variant: the variant that is written as `name`.
VariantOf(names, name) == CHOOSE v \in DOMAIN names : names[v] = name

Participant_to_json(q) ==
    << <<"role", ParticipantRole_names[q.role]>>, <<"email", q.email>>, <<"name", q.name>> >>
Participant_from_json(j) ==
    [ role |-> VariantOf(ParticipantRole_names, JsonGet(j, "role")),
      email |-> JsonGet(j, "email"), name |-> JsonGet(j, "name") ]

RfqMeta_to_json(m) ==
    << <<"id", m.id>>, <<"tenant_id", m.tenant_id>>,
       <<"manufacturer_id", m.manufacturer_id>>, <<"buyer", m.buyer>>,
       <<"subject", m.subject>>, <<"status", RfqStatus_names[m.status]>>,
       <<"created_at", to_rfc3339(m.created_at)>>,
       <<"last_event_ts", to_rfc3339(m.last_event_ts)>>,
       <<"participants", [i \in 1..Len(m.participants) |-> Participant_to_json(m.participants[i])]>>,
       <<"attachments", m.attachments>> >>

RfqMeta_from_json(j) ==
    [ id |-> JsonGet(j, "id"), tenant_id |-> JsonGet(j, "tenant_id"),
      manufacturer_id |-> JsonGet(j, "manufacturer_id"), buyer |-> JsonGet(j, "buyer"),
      subject |-> JsonGet(j, "subject"),
      status |-> VariantOf(RfqStatus_names, JsonGet(j, "status")),
      created_at |-> parse_from_rfc3339(JsonGet(j, "created_at")),
      last_event_ts |-> parse_from_rfc3339(JsonGet(j, "last_event_ts")),
      participants |-> [i \in 1..Len(JsonGet(j, "participants")) |->
                           Participant_from_json(JsonGet(j, "participants")[i])],
      attachments |-> JsonGet(j, "attachments") ]

RfqIndex_to_json(ix) ==
    << <<"last_event_ts", to_rfc3339(ix.last_event_ts)>>, <<"count", ix.count>> >>

RfqIndex_from_json(j) ==
    [ last_event_ts |-> parse_from_rfc3339(JsonGet(j, "last_event_ts")),
      count |-> JsonGet(j, "count") ]

\* #[serde(tag = "type")] on RfqEvent writes the variant tag first, then the
\* flattened base (whose event_type field is itself renamed "type"), then
\* the fields of the variant.
RfqEventBase_to_json(b) ==
    << <<"id", b.id>>, <<"rfq_id", b.rfq_id>>, <<"ts", to_rfc3339(b.ts)>>,
       <<"by", EventAuthor_names[b.by]>>, <<"type", b.event_type>> >>

RfqEvent_to_json(e) ==
    << <<"type", e.variant>> >> \o RfqEventBase_to_json(e.base) \o
    ( CASE e.variant = "message" -> << <<"body", e.body>> >>
        [] e.variant = "status" -> << <<"status", StatusType_names[e.status]>>, <<"note", e.note>> >>
        [] e.variant = "attachment" -> << <<"attachments", e.attachments>> >> )

CreateRfqResponse_to_json(r) ==
    << <<"id", r.id>>, <<"last_event_ts", r.last_event_ts>> >>

PostMessageResponse_to_json(r) == << <<"ts", r.ts>> >>

\* serde_json::from_str::<CreateRfqResponse>: both fields are required.
CreateRfqResponse_from_json(j) ==
    IF JsonHas(j, "id") /\ JsonHas(j, "last_event_ts")
    THEN [ok |-> TRUE, value |-> [id |-> JsonGet(j, "id"),
                                  last_event_ts |-> JsonGet(j, "last_event_ts")]]
    ELSE [ok |-> FALSE]

PostMessageResponse_from_json(j) ==
    IF JsonHas(j, "ts")
    THEN [ok |-> TRUE, value |-> [ts |-> JsonGet(j, "ts")]]
    ELSE [ok |-> FALSE]

CreateRfqRequest_to_json(r) ==
    << <<"tenant_id", r.tenant_id>>, <<"manufacturer_id", r.manufacturer_id>>,
       <<"buyer", r.buyer>>, <<"subject", r.subject>>, <<"body", r.body>>,
       <<"attachments", r.attachments>> >>

PostMessageRequest_to_json(r) ==
    << <<"by", r.by>>, <<"body", r.body>>, <<"attachments", r.attachments>> >>

(***************************************************************************)
(* The requests and keys the clients send.                                 *)
(***************************************************************************)
PdfDto == [upload_key |-> "u1", file_name |-> "a.pdf",
           content_type |-> "application/pdf", size_bytes |-> 1024]

ValidCreate ==
    [ tenant_id |-> <<"t","1">>,
      manufacturer_id |-> <<"m","f","g","_","A">>,
      buyer |-> [email |-> <<"b","@","x",".","c","o">>, name |-> None],
      subject |-> "Need 500 units",
      body |-> <<"H","i">>,
      attachments |-> None ]

CreateRfqRequests ==
    << ValidCreate,
       [ValidCreate EXCEPT !.attachments = Some(<< >>)],
       [ValidCreate EXCEPT !.attachments = Some(<<PdfDto>>)],
       [ValidCreate EXCEPT !.tenant_id = <<"t"," ">>],
       [ValidCreate EXCEPT !.manufacturer_id = <<"A","c","m","e">>],
       [ValidCreate EXCEPT !.buyer = [email |-> <<"b","@","x">>, name |-> None]],
       [ValidCreate EXCEPT !.body = << >>],
       [ValidCreate EXCEPT !.attachments = Some(<<[PdfDto EXCEPT !.content_type = "text/html"]>>)],
       [ValidCreate EXCEPT !.attachments = Some(<<PdfDto, [PdfDto EXCEPT !.size_bytes = 0]>>)],
       [ValidCreate EXCEPT !.manufacturer_id = <<"m","f","g","_","Z">>] >>

PostMessageRequests ==
    << [by |-> "manufacturer", body |-> <<"O","k">>, attachments |-> None],
       [by |-> "buyer", body |-> <<"O","k">>, attachments |-> None],
       [by |-> "system", body |-> <<"O","k">>, attachments |-> None],
       [by |-> "buyer", body |-> <<"<","b",">">>, attachments |-> None],
       [by |-> "buyer", body |-> <<"O","k">>, attachments |-> Some(<< >>)],
       [by |-> "manufacturer", body |-> <<"O","k">>, attachments |-> Some(<<PdfDto>>)],
       [by |-> "buyer", body |-> <<"O","k">>,
        attachments |-> Some(<<[PdfDto EXCEPT !.size_bytes = 0, !.content_type = "text/html"]>>)] >>

IdempotencyKeys == {"key-1", "key-2"}

\* Path ids a client may address besides the ids of stored RFQs.
MissingRfqId == <<"r","_","N","O","N","E">>
EmptyRfqId == << >>

(***************************************************************************)
(* sha2::Sha256 digests.  A digest is modelled by its preimage's number    *)
(* in the list of everything the service ever hashes: equal inputs give    *)
(* equal digests and (collision resistance) different inputs different     *)
(* ones.                                                                   *)
(***************************************************************************)
HashedInputs ==
    [i \in 1..Len(CreateRfqRequests) |->
        [kind |-> "CreateRfqRequest", bytes |-> CreateRfqRequest_to_json(CreateRfqRequests[i])]] \o
    [i \in 1..Len(PostMessageRequests) |->
        [kind |-> "PostMessageRequest", bytes |-> PostMessageRequest_to_json(PostMessageRequests[i])]] \o
    << [kind |-> "key", bytes |-> "key-1"], [kind |-> "key", bytes |-> "key-2"] >>

SameBytes(a, b) == a.kind = b.kind /\ a.bytes = b.bytes

Sha256_digest(input) ==
    CHOOSE d \in 1..Len(HashedInputs) :
        /\ SameBytes(HashedInputs[d], input)
        /\ \A e \in 1..(d - 1) : ~SameBytes(HashedInputs[e], input)

compute_request_hash(request) ==
    Sha256_digest([kind |-> "CreateRfqRequest", bytes |-> CreateRfqRequest_to_json(request)])
compute_message_hash(request) ==
    Sha256_digest([kind |-> "PostMessageRequest", bytes |-> PostMessageRequest_to_json(request)])

(***************************************************************************)
(* infrastructure/src/s3.rs: object keys.                                  *)
(***************************************************************************)
rfq_meta_key(rfq_id) == <<"rfq", rfq_id, "meta.json">>
rfq_index_key(rfq_id) == <<"rfq", rfq_id, "index.json">>
\* One object per RFQ, holding its latest event.
rfq_event_key_latest(rfq_id, event) == <<"rfq", rfq_id, "events", 0, 0>>

\* An event key that leaves the event id out.
rfq_event_key_by_second(rfq_id, event) ==
    <<"rfq", rfq_id, "events", format_key_ts(event.base.ts), 0>>

rfq_event_key(rfq_id, event) ==
    <<"rfq", rfq_id, "events", format_key_ts(event.base.ts), event.base.id>>
\* A key under which every manufacturer id finds the one stored profile.
manufacturer_key_of_any(id) == <<"manufacturer", <<"m","f","g","_","A">>>>

manufacturer_key(id) == <<"manufacturer", id>>
idempotency_key(key) == <<"idem", Sha256_digest([kind |-> "key", bytes |-> key])>>

IsMetaKey(k) == Len(k) = 3 /\ k[1] = "rfq" /\ k[3] = "meta.json"
IsIndexKey(k) == Len(k) = 3 /\ k[1] = "rfq" /\ k[3] = "index.json"
IsEventKey(k) == Len(k) = 5 /\ k[1] = "rfq" /\ k[3] = "events"
IsIdemKey(k) == Len(k) = 2 /\ k[1] = "idem"

\* S3 PutObject on a bucket (a function from keys to bodies): overwrites.
Put(bucket, key, body) ==
    [k \in DOMAIN bucket \cup {key} |-> IF k = key THEN body ELSE bucket[k]]


(***************************************************************************)
(* State.  private_bucket and public_bucket are the two S3 buckets         *)
(* (functions from object keys to JSON bodies); outbox is what SES has     *)
(* been asked to deliver and accepted; clock is Utc::now(); nextUuid       *)
(* numbers the values of Uuid::new_v4(); inv[p] is the p-th invocation of  *)
(* a command of RfqService; faults counts the failures of S3 and SES and   *)
(* the abandoned invocations so far.  Of an invocation: its arguments, its position (pc), its locals   *)
(* and, once it has returned, its result.  calls and wrote record the port *)
(* calls the invocation made and the keys it has put; pre records which    *)
(* invocations had returned when it started; fault which failure it met.   *)
(***************************************************************************)
VARIABLES private_bucket, public_bucket, outbox, clock, nextUuid, faults, inv,
          listing, sample

\* What the read-only commands and the listing pipeline leave behind: listing
\* is the response of the latest get_rfq or list_events call, sample the
\* decoded events and the paging arguments given to the steps of the listing
\* that follow deserialization, with what those steps returned.
reads == <<listing, sample>>

vars == <<private_bucket, public_bucket, outbox, clock, nextUuid, faults, inv,
          listing, sample>>

Procs == 1..NumCalls

EmptyBucket == [k \in {} |-> << >>]

ManufacturerA ==
    [ id |-> <<"m","f","g","_","A">>, name |-> "Acme",
      contact_email |-> Some(<<"s","@","a",".","c","o">>) ]

IdleInv ==
    [ pc |-> "idle", cmd |-> "none", key |-> None, req |-> 0, rfq_id |-> None,
      rfq_meta |-> None, status_event |-> None, message_event |-> None,
      attachment_event |-> None, index |-> None,
      result |-> "none", response |-> None, replayed |-> FALSE,
      calls |-> << >>, wrote |-> << >>, pre |-> {}, fault |-> "none" ]

NoListing ==
    [ cmd |-> "none", rfq_id |-> << >>, since |-> None, limit |-> None, fault |-> FALSE,
      keys |-> << >>, result |-> "none", items |-> << >>, next_since |-> None,
      meta |-> None ]

NoSample == [stage |-> "none"]

Init ==
    /\ private_bucket = EmptyBucket
    /\ public_bucket = Put(EmptyBucket, manufacturer_key(ManufacturerA.id), ManufacturerA)
    /\ outbox = {}
    /\ clock = 0
    /\ nextUuid = 1
    /\ faults = 0
    /\ inv = [p \in Procs |-> IdleInv]
    /\ listing = NoListing
    /\ sample = NoSample

\* The invocation has returned `result` (an error kind, or "Ok" with a response).
Return(rec, result, response) ==
    [ IdleInv EXCEPT !.pc = "done", !.cmd = rec.cmd, !.key = rec.key, !.req = rec.req,
                     !.rfq_id = rec.rfq_id, !.result = result, !.response = response,
                     !.replayed = rec.replayed, !.calls = rec.calls,
                     !.wrote = rec.wrote, !.pre = rec.pre, !.fault = rec.fault ]

\* The invocation met a failure: of S3 ("s3"), of SES ("ses"), or its caller
\* gave up ("abandon").
Failed(rec, what) == [rec EXCEPT !.fault = what]

\* An error mapping that reports a failed S3 call as a validation failure.
s3_error_kind_validation == "ValidationFailed"

\* Every S3 error is mapped to DomainError::Internal (map_err).
s3_error_kind == "Internal"

Called(rec, port) == [rec EXCEPT !.calls = Append(@, port)]
Wrote(rec, key) == [rec EXCEPT !.wrote = Append(@, key)]

InFlight(p) == inv[p].pc \notin {"idle", "done"}
Returned == {q \in Procs : inv[q].pc = "done"}

\* A port call that answers (ok) or fails; at most MaxFaults failures are injected.
Fault(ok) ==
    /\ ok \/ faults < MaxFaults
    /\ faults' = IF ok THEN faults ELSE faults + 1

\* Invocation slots are taken in order.
CanBegin(p) == inv[p].pc = "idle" /\ \A q \in 1..(p - 1) : inv[q].pc # "idle"

HexChars == <<"0","1","2","3","4","5","6","7","8","9","A","B","C","D","E","F">>
Hex8(n) == [i \in 1..8 |-> HexChars[((n \div (16 ^ (8 - i))) % 16) + 1]]

\* RfqId::generate: "r_" and the first 8 hex digits of a fresh uuid, upper case.
RfqId_generate(uuid) == <<"r", "_">> \o Hex8(uuid)

(***************************************************************************)
(* domain/src/events.rs: the constructors, given the uuid and the instant  *)
(* they draw.                                                              *)
(***************************************************************************)
new_status(uuid, ts, rfq_id, author, status, note) ==
    [ variant |-> "status",
      base |-> [id |-> uuid, rfq_id |-> rfq_id, ts |-> ts, by |-> author, event_type |-> "status"],
      status |-> status, note |-> note ]

new_message(uuid, ts, rfq_id, author, body) ==
    [ variant |-> "message",
      base |-> [id |-> uuid, rfq_id |-> rfq_id, ts |-> ts, by |-> author, event_type |-> "message"],
      body |-> body ]

new_attachment(uuid, ts, rfq_id, author, attachments) ==
    [ variant |-> "attachment",
      base |-> [id |-> uuid, rfq_id |-> rfq_id, ts |-> ts, by |-> author, event_type |-> "attachment"],
      attachments |-> attachments ]

(***************************************************************************)
(* infrastructure/src/s3.rs: S3IdempotencyService.  s3ok is whether        *)
(* GetObject answers (with the object or NoSuchKey) rather than failing.   *)
(***************************************************************************)
\* A check_idempotency that never finds the record.
check_idempotency_never_hits(bucket, key, body_hash, s3ok) ==
    IF ~s3ok THEN [tag |-> "Err", err |-> s3_error_kind]
    ELSE [tag |-> "Ok", value |-> None]

\* A check_idempotency that does not compare the body hash.
check_idempotency_any_body(bucket, key, body_hash, s3ok) ==
    LET s3_key == idempotency_key(key) IN
    IF ~s3ok THEN [tag |-> "Err", err |-> s3_error_kind]
    ELSE IF s3_key \notin DOMAIN bucket THEN [tag |-> "Ok", value |-> None]
    ELSE LET record == bucket[s3_key] IN
         IF JsonHas(record, "response")
         THEN [tag |-> "Ok", value |-> Some(JsonGet(record, "response"))]
         ELSE [tag |-> "Ok", value |-> None]

\* A check_idempotency that takes a failed read for a missing record.
check_idempotency_fail_open(bucket, key, body_hash, s3ok) ==
    LET s3_key == idempotency_key(key) IN
    IF ~s3ok THEN [tag |-> "Ok", value |-> None]
    ELSE IF s3_key \notin DOMAIN bucket THEN [tag |-> "Ok", value |-> None]
    ELSE LET record == bucket[s3_key] IN
         IF JsonHas(record, "body_hash") /\ JsonHas(record, "response")
         THEN IF JsonGet(record, "body_hash") = body_hash
              THEN [tag |-> "Ok", value |-> Some(JsonGet(record, "response"))]
              ELSE [tag |-> "Err", err |-> "Conflict"]
         ELSE [tag |-> "Ok", value |-> None]

check_idempotency(bucket, key, body_hash, s3ok) ==
    LET s3_key == idempotency_key(key) IN
    IF ~s3ok THEN [tag |-> "Err", err |-> s3_error_kind]
    ELSE IF s3_key \notin DOMAIN bucket THEN [tag |-> "Ok", value |-> None]
    ELSE LET record == bucket[s3_key] IN
         IF JsonHas(record, "body_hash") /\ JsonHas(record, "response")
         THEN IF JsonGet(record, "body_hash") = body_hash
              THEN [tag |-> "Ok", value |-> Some(JsonGet(record, "response"))]
              ELSE [tag |-> "Err", err |-> "Conflict"]
         ELSE [tag |-> "Ok", value |-> None]

\* A store_idempotency that records the hash of the key in place of the hash
\* of the body.
store_idempotency_key_hash(bucket, key, body_hash, response, now) ==
    Put(bucket, idempotency_key(key),
        << <<"body_hash", Sha256_digest([kind |-> "key", bytes |-> key])>>, <<"response", response>>,
           <<"stored_at", to_rfc3339(now)>> >>)

store_idempotency(bucket, key, body_hash, response, now) ==
    Put(bucket, idempotency_key(key),
        << <<"body_hash", body_hash>>, <<"response", response>>,
           <<"stored_at", to_rfc3339(now)>> >>)


(***************************************************************************)
(* infrastructure/src/ses.rs: SesEmailService.  An email SES accepted is   *)
(* recorded in outbox with the invocation that sent it.                    *)
(***************************************************************************)
Email_sent(p, to, about) == [inv |-> p, to |-> to, about |-> about]

ManufacturerEmailOf(rfq) ==
    LET ms == {i \in 1..Len(rfq.participants) : rfq.participants[i].role = "Manufacturer"}
    IN IF ms = {} THEN None
       ELSE Some(rfq.participants[CHOOSE i \in ms : \A j \in ms : i <= j].email)

\* The emails send_rfq_created_notification asks SES to send, in order.
rfq_created_emails(p, rfq) ==
    ( IF IsSome(ManufacturerEmailOf(rfq))
      THEN <<Email_sent(p, Unwrap(ManufacturerEmailOf(rfq)), "New RFQ")>>
      ELSE << >> ) \o
    <<Email_sent(p, rfq.buyer.email, "RFQ Submitted Successfully")>>

\* The emails send_rfq_message_notification asks SES to send.
rfq_message_emails(p, rfq, event) ==
    IF event.variant # "message" \/ event.base.by = "System" THEN << >>
    ELSE IF event.base.by = "Buyer"
         THEN ( IF IsSome(ManufacturerEmailOf(rfq))
                THEN <<Email_sent(p, Unwrap(ManufacturerEmailOf(rfq)), "New message on RFQ")>>
                ELSE << >> )
         ELSE <<Email_sent(p, rfq.buyer.email, "New message on RFQ")>>

\* send_email fails at the (sentUpTo+1)-th email, or not at all when
\* sentUpTo = Len(emails); every send_email is followed by `?`.
Notified(emails, sentUpTo) == {emails[i] : i \in 1..sentUpTo}

(***************************************************************************)
(* application/src/services.rs: RfqService::create_rfq, one action per     *)
(* awaited port call together with the synchronous code that follows it.   *)
(***************************************************************************)
create_rfq_validate(request) ==
    /\ TenantId_new(request.tenant_id)
    /\ ManufacturerId_new(request.manufacturer_id)
    /\ Email_new(request.buyer.email)
    /\ MessageBody_new(request.body)

attachments_valid(attachment_dtos) ==
    \A i \in 1..Len(attachment_dtos) :
        /\ ContentType_new(attachment_dtos[i].content_type)
        /\ FileSize_new(attachment_dtos[i].size_bytes)

processed_attachments(attachment_dtos, uuid0) ==
    [ i \in 1..Len(attachment_dtos) |->
        [ id |-> uuid0 + i - 1,
          file_name |-> attachment_dtos[i].file_name,
          content_type |-> attachment_dtos[i].content_type,
          size_bytes |-> attachment_dtos[i].size_bytes,
          key |-> attachment_dtos[i].upload_key ] ]

\* Lines 36-50: the replay check and the validation of the scalar inputs.
create_rfq_begin(p, i, k, s3ok) ==
    /\ CanBegin(p)
    /\ Fault(s3ok)
    /\ IsSome(k) \/ s3ok
    /\ LET request == CreateRfqRequests[i]
           rec0 == [IdleInv EXCEPT !.cmd = "create_rfq", !.key = k, !.req = i, !.pre = Returned]
           rec1 == IF IsSome(k) THEN Called(rec0, "check_idempotency") ELSE rec0
           chk == IF IsSome(k)
                  THEN check_idempotency(private_bucket, Unwrap(k),
                                         compute_request_hash(request), s3ok)
                  ELSE [tag |-> "Ok", value |-> None]
       IN inv' = [inv EXCEPT ![p] =
            IF chk.tag = "Err"
            THEN Return(IF s3ok THEN rec1 ELSE Failed(rec1, "s3"), chk.err, None)
            ELSE IF IsSome(chk.value)
            THEN LET parsed == CreateRfqResponse_from_json(Unwrap(chk.value)) IN
                 IF parsed.ok
                 THEN Return([rec1 EXCEPT !.replayed = TRUE], "Ok", Some(parsed.value))
                 ELSE Return(rec1, "Internal", None)
            ELSE IF ~create_rfq_validate(request)
            THEN Return(rec1, "ValidationFailed", None)
            ELSE [rec1 EXCEPT !.pc = "get_manufacturer"]]
    /\ UNCHANGED <<private_bucket, public_bucket, outbox, clock, nextUuid>>
    /\ UNCHANGED reads

\* Lines 52-112: the manufacturer lookup, the fresh id and instant, the
\* attachments and the RfqMeta.
create_rfq_get_manufacturer(p, s3ok) ==
    /\ inv[p].pc = "get_manufacturer"
    /\ inv[p].cmd = "create_rfq"
    /\ Fault(s3ok)
    /\ LET request == CreateRfqRequests[inv[p].req]
           key == manufacturer_key(request.manufacturer_id)
           rec1 == Called(inv[p], "get_manufacturer")
       IN IF ~s3ok
          THEN /\ inv' = [inv EXCEPT ![p] = Return(Failed(rec1, "s3"), s3_error_kind, None)]
               /\ UNCHANGED nextUuid
          ELSE IF key \notin DOMAIN public_bucket
          THEN /\ inv' = [inv EXCEPT ![p] = Return(rec1, "NotFound", None)]
               /\ UNCHANGED nextUuid
          ELSE IF IsSome(request.attachments) /\ ~attachments_valid(Unwrap(request.attachments))
          THEN /\ inv' = [inv EXCEPT ![p] = Return(rec1, "ValidationFailed", None)]
               /\ UNCHANGED nextUuid
          ELSE LET manufacturer == public_bucket[key]
                   rfq_id == RfqId_generate(nextUuid)
                   now == clock
                   buyer == [email |-> request.buyer.email, name |-> request.buyer.name]
                   attachments ==
                       IF IsSome(request.attachments)
                       THEN Some(processed_attachments(Unwrap(request.attachments), nextUuid + 1))
                       ELSE None
                   participants ==
                       << [role |-> "Buyer", email |-> buyer.email, name |-> buyer.name],
                          [role |-> "Manufacturer",
                           email |-> IF IsSome(manufacturer.contact_email)
                                     THEN Unwrap(manufacturer.contact_email) ELSE << >>,
                           name |-> Some(manufacturer.name)] >>
                   rfq_meta ==
                       [ id |-> rfq_id, tenant_id |-> request.tenant_id,
                         manufacturer_id |-> request.manufacturer_id, buyer |-> buyer,
                         subject |-> request.subject, status |-> "Open",
                         created_at |-> now, last_event_ts |-> now,
                         participants |-> participants, attachments |-> attachments ]
               IN /\ inv' = [inv EXCEPT ![p] =
                        [rec1 EXCEPT !.pc = "save_rfq_meta", !.rfq_id = Some(rfq_id),
                                     !.rfq_meta = Some(rfq_meta)]]
                  /\ nextUuid' = nextUuid + 1 +
                        (IF IsSome(attachments) THEN Len(Unwrap(attachments)) ELSE 0)
    /\ UNCHANGED <<private_bucket, public_bucket, outbox, clock>>
    /\ UNCHANGED reads

\* A save_rfq_meta whose failure is dropped: the events are written all the same.
create_rfq_save_meta_unchecked(p, s3ok, d) ==
    /\ inv[p].pc = "save_rfq_meta"
    /\ inv[p].cmd = "create_rfq"
    /\ Fault(s3ok)
    /\ clock + d <= MaxClock
    /\ LET rfq_meta == Unwrap(inv[p].rfq_meta)
           rec1 == Called(inv[p], "save_rfq_meta")
           status_event == new_status(nextUuid, clock, rfq_meta.id, "System", "RfqCreated", None)
           message_event == new_message(nextUuid + 1, clock + d, rfq_meta.id, "Buyer",
                                        CreateRfqRequests[inv[p].req].body)
           rec2 == IF s3ok THEN Wrote(rec1, rfq_meta_key(rfq_meta.id)) ELSE Failed(rec1, "s3")
       IN /\ private_bucket' = IF s3ok
                               THEN Put(private_bucket, rfq_meta_key(rfq_meta.id),
                                        RfqMeta_to_json(rfq_meta))
                               ELSE private_bucket
          /\ inv' = [inv EXCEPT ![p] =
                [rec2 EXCEPT !.pc = "save_status_event",
                             !.status_event = Some(status_event),
                             !.message_event = Some(message_event)]]
          /\ clock' = clock + d
          /\ nextUuid' = nextUuid + 2
    /\ UNCHANGED <<public_bucket, outbox>>
    /\ UNCHANGED reads

\* Lines 114-129: save_rfq_meta, then the two initial events are built; the
\* second reading of the clock is d ticks after the first.
create_rfq_save_meta(p, s3ok, d) ==
    /\ inv[p].pc = "save_rfq_meta"
    /\ inv[p].cmd = "create_rfq"
    /\ Fault(s3ok)
    /\ clock + d <= MaxClock
    /\ LET rfq_meta == Unwrap(inv[p].rfq_meta)
           rec1 == Called(inv[p], "save_rfq_meta")
           status_event == new_status(nextUuid, clock, rfq_meta.id, "System", "RfqCreated", None)
           message_event == new_message(nextUuid + 1, clock + d, rfq_meta.id, "Buyer",
                                        CreateRfqRequests[inv[p].req].body)
       IN IF ~s3ok
          THEN /\ inv' = [inv EXCEPT ![p] = Return(Failed(rec1, "s3"), s3_error_kind, None)]
               /\ UNCHANGED <<private_bucket, clock, nextUuid>>
          ELSE /\ private_bucket' = Put(private_bucket, rfq_meta_key(rfq_meta.id),
                                        RfqMeta_to_json(rfq_meta))
               /\ inv' = [inv EXCEPT ![p] =
                     [Wrote(rec1, rfq_meta_key(rfq_meta.id)) EXCEPT
                         !.pc = "save_status_event",
                         !.status_event = Some(status_event),
                         !.message_event = Some(message_event)]]
               /\ clock' = clock + d
               /\ nextUuid' = nextUuid + 2
    /\ UNCHANGED <<public_bucket, outbox>>
    /\ UNCHANGED reads

\* save_rfq_event of the repository, as one step of invocation p that goes on
\* at pc `next` with the locals `rec` when the put succeeds.
save_rfq_event(p, event, s3ok, rec, next) ==
    LET key == rfq_event_key(event.base.rfq_id, event)
        rec1 == Called(rec, "save_rfq_event")
    IN IF ~s3ok
       THEN /\ inv' = [inv EXCEPT ![p] = Return(Failed(rec1, "s3"), s3_error_kind, None)]
            /\ UNCHANGED private_bucket
       ELSE /\ private_bucket' = Put(private_bucket, key, RfqEvent_to_json(event))
            /\ inv' = [inv EXCEPT ![p] = [Wrote(rec1, key) EXCEPT !.pc = next]]

\* Line 132.
create_rfq_save_status_event(p, s3ok) ==
    /\ inv[p].pc = "save_status_event"
    /\ inv[p].cmd = "create_rfq"
    /\ Fault(s3ok)
    /\ save_rfq_event(p, Unwrap(inv[p].status_event), s3ok, inv[p], "save_message_event")
    /\ UNCHANGED <<public_bucket, outbox, clock, nextUuid>>
    /\ UNCHANGED reads

\* Lines 133-141: the message event is saved; the attachment event is built
\* when rfq_meta.attachments is Some.
create_rfq_save_message_event(p, s3ok) ==
    /\ inv[p].pc = "save_message_event"
    /\ inv[p].cmd = "create_rfq"
    /\ Fault(s3ok)
    /\ LET rfq_meta == Unwrap(inv[p].rfq_meta)
           has == IsSome(rfq_meta.attachments)
           rec == IF has
                  THEN [inv[p] EXCEPT !.attachment_event =
                           Some(new_attachment(nextUuid, clock, rfq_meta.id, "Buyer",
                                               Unwrap(rfq_meta.attachments)))]
                  ELSE inv[p]
       IN /\ save_rfq_event(p, Unwrap(inv[p].message_event), s3ok, rec,
                            IF has THEN "save_attachment_event" ELSE "save_rfq_index")
          /\ nextUuid' = IF s3ok /\ has THEN nextUuid + 1 ELSE nextUuid
    /\ UNCHANGED <<public_bucket, outbox, clock>>
    /\ UNCHANGED reads

\* Line 142.
create_rfq_save_attachment_event(p, s3ok) ==
    /\ inv[p].pc = "save_attachment_event"
    /\ inv[p].cmd = "create_rfq"
    /\ Fault(s3ok)
    /\ save_rfq_event(p, Unwrap(inv[p].attachment_event), s3ok, inv[p], "save_rfq_index")
    /\ UNCHANGED <<public_bucket, outbox, clock, nextUuid>>
    /\ UNCHANGED reads

\* An index write that, when it fails, takes back the RfqMeta of the RFQ.
save_rfq_index_or_undo(p, rfq_id, index, s3ok, next) ==
    LET key == rfq_index_key(rfq_id)
        rec1 == Called(inv[p], "save_rfq_index")
    IN IF ~s3ok
       THEN /\ inv' = [inv EXCEPT ![p] = Return(Failed(rec1, "s3"), s3_error_kind, None)]
            /\ private_bucket' = [k \in DOMAIN private_bucket \ {rfq_meta_key(rfq_id)} |->
                                      private_bucket[k]]
       ELSE /\ private_bucket' = Put(private_bucket, key, RfqIndex_to_json(index))
            /\ inv' = [inv EXCEPT ![p] = [Wrote(rec1, key) EXCEPT !.pc = next]]

\* An index write whose failure is dropped: the command goes on.
save_rfq_index_unchecked(p, rfq_id, index, s3ok, next) ==
    LET key == rfq_index_key(rfq_id)
        rec1 == Called(inv[p], "save_rfq_index")
    IN IF ~s3ok
       THEN /\ inv' = [inv EXCEPT ![p] = [Failed(rec1, "s3") EXCEPT !.pc = next]]
            /\ UNCHANGED private_bucket
       ELSE /\ private_bucket' = Put(private_bucket, key, RfqIndex_to_json(index))
            /\ inv' = [inv EXCEPT ![p] = [Wrote(rec1, key) EXCEPT !.pc = next]]

\* save_rfq_index of the repository, as one step of invocation p.
save_rfq_index(p, rfq_id, index, s3ok, next) ==
    LET key == rfq_index_key(rfq_id)
        rec1 == Called(inv[p], "save_rfq_index")
    IN IF ~s3ok
       THEN /\ inv' = [inv EXCEPT ![p] = Return(Failed(rec1, "s3"), s3_error_kind, None)]
            /\ UNCHANGED private_bucket
       ELSE /\ private_bucket' = Put(private_bucket, key, RfqIndex_to_json(index))
            /\ inv' = [inv EXCEPT ![p] = [Wrote(rec1, key) EXCEPT !.pc = next]]

\* An index that counts the two events every creation writes.
create_rfq_index_two_events(rfq_meta) ==
    [ last_event_ts |-> rfq_meta.created_at, count |-> 2 ]

\* Lines 145-150.
create_rfq_index(rfq_meta) ==
    [ last_event_ts |-> rfq_meta.created_at,
      count |-> IF IsSome(rfq_meta.attachments) THEN 3 ELSE 2 ]

create_rfq_save_index(p, s3ok) ==
    /\ inv[p].pc = "save_rfq_index"
    /\ inv[p].cmd = "create_rfq"
    /\ Fault(s3ok)
    /\ save_rfq_index(p, Unwrap(inv[p].rfq_meta).id, create_rfq_index(Unwrap(inv[p].rfq_meta)),
                      s3ok, "notify")
    /\ UNCHANGED <<public_bucket, outbox, clock, nextUuid>>
    /\ UNCHANGED reads

\* What the command does with the result of the notification call:
\* `.await?` returns the error of a failed call to the caller.
after_notification(rec, sent_all) == IF sent_all THEN "go_on" ELSE "Internal"

\* Lines 152-158.
create_rfq_notify(p, sentUpTo) ==
    /\ inv[p].pc = "notify"
    /\ inv[p].cmd = "create_rfq"
    /\ LET rfq_meta == Unwrap(inv[p].rfq_meta)
           emails == rfq_created_emails(p, rfq_meta)
           rec1 == Called(inv[p], "send_rfq_created_notification")
           response == [id |-> rfq_meta.id, last_event_ts |-> to_rfc3339(rfq_meta.created_at)]
       IN /\ sentUpTo \in 0..Len(emails)
          /\ Fault(sentUpTo = Len(emails))
          /\ outbox' = outbox \cup Notified(emails, sentUpTo)
          /\ inv' = [inv EXCEPT ![p] =
                IF after_notification(rec1, sentUpTo = Len(emails)) = "Internal"
                THEN Return(Failed(rec1, "ses"), "Internal", None)
                ELSE IF IsSome(rec1.key)
                THEN [rec1 EXCEPT !.pc = "store_idempotency", !.response = Some(response)]
                ELSE Return(rec1, "Ok", Some(response))]
    /\ UNCHANGED <<private_bucket, public_bucket, clock, nextUuid>>
    /\ UNCHANGED reads

\* Lines 160-168.
create_rfq_store_idempotency(p, s3ok) ==
    /\ inv[p].pc = "store_idempotency"
    /\ inv[p].cmd = "create_rfq"
    /\ Fault(s3ok)
    /\ LET rec1 == Called(inv[p], "store_idempotency")
           key == Unwrap(inv[p].key)
           body_hash == compute_request_hash(CreateRfqRequests[inv[p].req])
           response_json == CreateRfqResponse_to_json(Unwrap(inv[p].response))
       IN IF ~s3ok
          THEN /\ inv' = [inv EXCEPT ![p] = Return(Failed(rec1, "s3"), s3_error_kind, None)]
               /\ UNCHANGED private_bucket
          ELSE /\ private_bucket' = store_idempotency(private_bucket, key, body_hash,
                                                      response_json, clock)
               /\ inv' = [inv EXCEPT ![p] =
                     Return(Wrote(rec1, idempotency_key(key)), "Ok", inv[p].response)]
    /\ UNCHANGED <<public_bucket, outbox, clock, nextUuid>>
    /\ UNCHANGED reads

(***************************************************************************)
(* application/src/services.rs: RfqService::post_message.                  *)
(***************************************************************************)
\* Lines 199-211: RfqId::new, the replay check, MessageBody::new.
\* A post_message that answers from a record only when the cached ts is the
\* ts of an event of the addressed RFQ, and otherwise runs as a first execution.
post_message_begin_own_rfq(p, rfq_id, i, k, s3ok) ==
    /\ CanBegin(p)
    /\ Fault(s3ok)
    /\ (IsSome(k) /\ RfqId_new(rfq_id)) \/ s3ok
    /\ LET request == PostMessageRequests[i]
           rec0 == [IdleInv EXCEPT !.cmd = "post_message", !.key = k, !.req = i,
                                   !.rfq_id = Some(rfq_id), !.pre = Returned]
           rec1 == IF IsSome(k) THEN Called(rec0, "check_idempotency") ELSE rec0
           chk == IF IsSome(k)
                  THEN check_idempotency(private_bucket, Unwrap(k),
                                         compute_message_hash(request), s3ok)
                  ELSE [tag |-> "Ok", value |-> None]
           own(response) ==
               \E key \in DOMAIN private_bucket :
                   /\ Len(key) = 5 /\ key[1] = "rfq" /\ key[2] = rfq_id /\ key[3] = "events"
                   /\ JsonGet(private_bucket[key], "ts") = response.ts
       IN inv' = [inv EXCEPT ![p] =
            IF ~RfqId_new(rfq_id) THEN Return(rec0, "ValidationFailed", None)
            ELSE IF chk.tag = "Err"
            THEN Return(IF s3ok THEN rec1 ELSE Failed(rec1, "s3"), chk.err, None)
            ELSE IF IsSome(chk.value)
                    /\ PostMessageResponse_from_json(Unwrap(chk.value)).ok
                    /\ own(PostMessageResponse_from_json(Unwrap(chk.value)).value)
            THEN Return([rec1 EXCEPT !.replayed = TRUE], "Ok",
                        Some(PostMessageResponse_from_json(Unwrap(chk.value)).value))
            ELSE IF IsSome(chk.value) /\ ~PostMessageResponse_from_json(Unwrap(chk.value)).ok
            THEN Return(rec1, "Internal", None)
            ELSE IF ~MessageBody_new(request.body)
            THEN Return(rec1, "ValidationFailed", None)
            ELSE [rec1 EXCEPT !.pc = "get_rfq_meta"]]
    /\ UNCHANGED <<private_bucket, public_bucket, outbox, clock, nextUuid>>
    /\ UNCHANGED reads

post_message_begin(p, rfq_id, i, k, s3ok) ==
    /\ CanBegin(p)
    /\ Fault(s3ok)
    /\ (IsSome(k) /\ RfqId_new(rfq_id)) \/ s3ok
    /\ LET request == PostMessageRequests[i]
           rec0 == [IdleInv EXCEPT !.cmd = "post_message", !.key = k, !.req = i,
                                   !.rfq_id = Some(rfq_id), !.pre = Returned]
           rec1 == IF IsSome(k) THEN Called(rec0, "check_idempotency") ELSE rec0
           chk == IF IsSome(k)
                  THEN check_idempotency(private_bucket, Unwrap(k),
                                         compute_message_hash(request), s3ok)
                  ELSE [tag |-> "Ok", value |-> None]
       IN inv' = [inv EXCEPT ![p] =
            IF ~RfqId_new(rfq_id) THEN Return(rec0, "ValidationFailed", None)
            ELSE IF chk.tag = "Err"
            THEN Return(IF s3ok THEN rec1 ELSE Failed(rec1, "s3"), chk.err, None)
            ELSE IF IsSome(chk.value)
            THEN LET parsed == PostMessageResponse_from_json(Unwrap(chk.value)) IN
                 IF parsed.ok
                 THEN Return([rec1 EXCEPT !.replayed = TRUE], "Ok", Some(parsed.value))
                 ELSE Return(rec1, "Internal", None)
            ELSE IF ~MessageBody_new(request.body)
            THEN Return(rec1, "ValidationFailed", None)
            ELSE [rec1 EXCEPT !.pc = "get_rfq_meta"]]
    /\ UNCHANGED <<private_bucket, public_bucket, outbox, clock, nextUuid>>
    /\ UNCHANGED reads

\* Lines 217-222.
parse_author(by) ==
    CASE by = "buyer" -> Some("Buyer")
      [] by = "manufacturer" -> Some("Manufacturer")
      [] OTHER -> None

\* A post_message that resolves the author before it looks the RFQ up.
post_message_get_meta_author_first(p, s3ok) ==
    /\ inv[p].pc = "get_rfq_meta"
    /\ Fault(s3ok)
    /\ LET request == PostMessageRequests[inv[p].req]
           rfq_id == Unwrap(inv[p].rfq_id)
           key == rfq_meta_key(rfq_id)
           rec1 == Called(inv[p], "get_rfq_meta")
           author == parse_author(request.by)
       IN IF ~s3ok
          THEN /\ inv' = [inv EXCEPT ![p] = Return(Failed(rec1, "s3"), s3_error_kind, None)]
               /\ UNCHANGED nextUuid
          ELSE IF ~IsSome(author)
          THEN /\ inv' = [inv EXCEPT ![p] = Return(rec1, "ValidationFailed", None)]
               /\ UNCHANGED nextUuid
          ELSE IF key \notin DOMAIN private_bucket
          THEN /\ inv' = [inv EXCEPT ![p] = Return(rec1, "NotFound", None)]
               /\ UNCHANGED nextUuid
          ELSE /\ inv' = [inv EXCEPT ![p] =
                     [rec1 EXCEPT !.pc = "save_rfq_event",
                                  !.rfq_meta = Some(RfqMeta_from_json(private_bucket[key])),
                                  !.message_event =
                                      Some(new_message(nextUuid, clock, rfq_id,
                                                       Unwrap(author), request.body))]]
               /\ nextUuid' = nextUuid + 1
    /\ UNCHANGED <<private_bucket, public_bucket, outbox, clock>>
    /\ UNCHANGED reads

\* A post_message that validates the attachments of the request as create_rfq
\* does (ContentType::new, FileSize::new).
post_message_get_meta_validating(p, s3ok) ==
    /\ inv[p].pc = "get_rfq_meta"
    /\ Fault(s3ok)
    /\ LET request == PostMessageRequests[inv[p].req]
           rfq_id == Unwrap(inv[p].rfq_id)
           key == rfq_meta_key(rfq_id)
           rec1 == Called(inv[p], "get_rfq_meta")
           author == parse_author(request.by)
           dtos == IF IsSome(request.attachments) THEN Unwrap(request.attachments) ELSE << >>
       IN IF ~s3ok
          THEN /\ inv' = [inv EXCEPT ![p] = Return(Failed(rec1, "s3"), s3_error_kind, None)]
               /\ UNCHANGED nextUuid
          ELSE IF key \notin DOMAIN private_bucket
          THEN /\ inv' = [inv EXCEPT ![p] = Return(rec1, "NotFound", None)]
               /\ UNCHANGED nextUuid
          ELSE IF ~IsSome(author)
                  \/ \E i \in 1..Len(dtos) : ~ContentType_new(dtos[i].content_type)
                                                \/ ~FileSize_new(dtos[i].size_bytes)
          THEN /\ inv' = [inv EXCEPT ![p] = Return(rec1, "ValidationFailed", None)]
               /\ UNCHANGED nextUuid
          ELSE /\ inv' = [inv EXCEPT ![p] =
                     [rec1 EXCEPT !.pc = "save_rfq_event",
                                  !.rfq_meta = Some(RfqMeta_from_json(private_bucket[key])),
                                  !.message_event =
                                      Some(new_message(nextUuid, clock, rfq_id,
                                                       Unwrap(author), request.body))]]
               /\ nextUuid' = nextUuid + 1
    /\ UNCHANGED <<private_bucket, public_bucket, outbox, clock>>
    /\ UNCHANGED reads

\* Lines 213-231: get_rfq_meta, the author, the message event.
post_message_get_meta(p, s3ok) ==
    /\ inv[p].pc = "get_rfq_meta"
    /\ Fault(s3ok)
    /\ LET request == PostMessageRequests[inv[p].req]
           rfq_id == Unwrap(inv[p].rfq_id)
           key == rfq_meta_key(rfq_id)
           rec1 == Called(inv[p], "get_rfq_meta")
           author == parse_author(request.by)
       IN IF ~s3ok
          THEN /\ inv' = [inv EXCEPT ![p] = Return(Failed(rec1, "s3"), s3_error_kind, None)]
               /\ UNCHANGED nextUuid
          ELSE IF key \notin DOMAIN private_bucket
          THEN /\ inv' = [inv EXCEPT ![p] = Return(rec1, "NotFound", None)]
               /\ UNCHANGED nextUuid
          ELSE IF ~IsSome(author)
          THEN /\ inv' = [inv EXCEPT ![p] = Return(rec1, "ValidationFailed", None)]
               /\ UNCHANGED nextUuid
          ELSE /\ inv' = [inv EXCEPT ![p] =
                     [rec1 EXCEPT !.pc = "save_rfq_event",
                                  !.rfq_meta = Some(RfqMeta_from_json(private_bucket[key])),
                                  !.message_event =
                                      Some(new_message(nextUuid, clock, rfq_id,
                                                       Unwrap(author), request.body))]]
               /\ nextUuid' = nextUuid + 1
    /\ UNCHANGED <<private_bucket, public_bucket, outbox, clock>>
    /\ UNCHANGED reads

\* Line 234.
post_message_save_event(p, s3ok) ==
    /\ inv[p].pc = "save_rfq_event"
    /\ Fault(s3ok)
    /\ save_rfq_event(p, Unwrap(inv[p].message_event), s3ok, inv[p], "get_rfq_index")
    /\ UNCHANGED <<public_bucket, outbox, clock, nextUuid>>
    /\ UNCHANGED reads

\* An index update whose made-up index already counts one event.
post_message_index_from_one(stored, timestamp) ==
    LET index == IF IsSome(stored) THEN Unwrap(stored)
                 ELSE [last_event_ts |-> timestamp, count |-> 1]
    IN [index EXCEPT !.last_event_ts = timestamp, !.count = @ + 1]

\* Lines 237-240: the index is read (or a zero count made up) and bumped.
post_message_index(stored, timestamp) ==
    LET index == IF IsSome(stored) THEN Unwrap(stored)
                 ELSE [last_event_ts |-> timestamp, count |-> 0]
    IN [index EXCEPT !.last_event_ts = timestamp, !.count = @ + 1]

post_message_get_index(p, s3ok) ==
    /\ inv[p].pc = "get_rfq_index"
    /\ Fault(s3ok)
    /\ LET key == rfq_index_key(Unwrap(inv[p].rfq_id))
           rec1 == Called(inv[p], "get_rfq_index")
           stored == IF key \in DOMAIN private_bucket
                     THEN Some(RfqIndex_from_json(private_bucket[key])) ELSE None
           timestamp == Unwrap(inv[p].message_event).base.ts
       IN inv' = [inv EXCEPT ![p] =
            IF ~s3ok THEN Return(Failed(rec1, "s3"), s3_error_kind, None)
            ELSE [rec1 EXCEPT !.pc = "save_rfq_index",
                              !.index = Some(post_message_index(stored, timestamp))]]
    /\ UNCHANGED <<private_bucket, public_bucket, outbox, clock, nextUuid>>
    /\ UNCHANGED reads

\* Line 241.
post_message_save_index(p, s3ok) ==
    /\ inv[p].pc = "save_rfq_index"
    /\ inv[p].cmd = "post_message"
    /\ Fault(s3ok)
    /\ save_rfq_index(p, Unwrap(inv[p].rfq_id), Unwrap(inv[p].index), s3ok, "notify")
    /\ UNCHANGED <<public_bucket, outbox, clock, nextUuid>>
    /\ UNCHANGED reads

\* Lines 243-248.
post_message_notify(p, sentUpTo) ==
    /\ inv[p].pc = "notify"
    /\ inv[p].cmd = "post_message"
    /\ LET message_event == Unwrap(inv[p].message_event)
           emails == rfq_message_emails(p, Unwrap(inv[p].rfq_meta), message_event)
           rec1 == Called(inv[p], "send_rfq_message_notification")
           response == [ts |-> to_rfc3339(message_event.base.ts)]
       IN /\ sentUpTo \in 0..Len(emails)
          /\ Fault(sentUpTo = Len(emails))
          /\ outbox' = outbox \cup Notified(emails, sentUpTo)
          /\ inv' = [inv EXCEPT ![p] =
                IF after_notification(rec1, sentUpTo = Len(emails)) = "Internal"
                THEN Return(Failed(rec1, "ses"), "Internal", None)
                ELSE IF IsSome(rec1.key)
                THEN [rec1 EXCEPT !.pc = "store_idempotency", !.response = Some(response)]
                ELSE Return(rec1, "Ok", Some(response))]
    /\ UNCHANGED <<private_bucket, public_bucket, clock, nextUuid>>
    /\ UNCHANGED reads

\* Lines 250-258.
post_message_store_idempotency(p, s3ok) ==
    /\ inv[p].pc = "store_idempotency"
    /\ inv[p].cmd = "post_message"
    /\ Fault(s3ok)
    /\ LET rec1 == Called(inv[p], "store_idempotency")
           key == Unwrap(inv[p].key)
           body_hash == compute_message_hash(PostMessageRequests[inv[p].req])
           response_json == PostMessageResponse_to_json(Unwrap(inv[p].response))
       IN IF ~s3ok
          THEN /\ inv' = [inv EXCEPT ![p] = Return(Failed(rec1, "s3"), s3_error_kind, None)]
               /\ UNCHANGED private_bucket
          ELSE /\ private_bucket' = store_idempotency(private_bucket, key, body_hash,
                                                      response_json, clock)
               /\ inv' = [inv EXCEPT ![p] =
                     Return(Wrote(rec1, idempotency_key(key)), "Ok", inv[p].response)]
    /\ UNCHANGED <<public_bucket, outbox, clock, nextUuid>>
    /\ UNCHANGED reads

(***************************************************************************)
(* infrastructure/src/s3.rs: S3RfqRepository::list_rfq_events, and what    *)
(* serde makes of a stored event.                                          *)
(***************************************************************************)
DefaultLimit == 50
LimitCap == 200

Min(a, b) == IF a <= b THEN a ELSE b

\* serde_json::from_slice::<RfqEvent>.  The enum is internally tagged by
\* "type": the visitor takes the one member named "type" as the variant and
\* rejects a second one (duplicate field); the other members go to the
\* variant's struct, whose flattened base asks for its own member named
\* "type" (event_type) and fails without it (missing field).
RfqEvent_from_json(j) ==
    LET tags == {i \in 1..Len(j) : j[i][1] = "type"}
        content == SelectSeq(j, LAMBDA m : m[1] # "type")
    IN IF Cardinality(tags) # 1 THEN [ok |-> FALSE, error |-> "duplicate or missing tag"]
       ELSE IF ~JsonHas(content, "type") THEN [ok |-> FALSE, error |-> "missing field type"]
       ELSE LET variant == j[CHOOSE i \in tags : TRUE][2]
                base == [id |-> JsonGet(content, "id"),
                         rfq_id |-> JsonGet(content, "rfq_id"),
                         ts |-> parse_from_rfc3339(JsonGet(content, "ts")),
                         by |-> VariantOf(EventAuthor_names, JsonGet(content, "by")),
                         event_type |-> JsonGet(content, "type")]
            IN [ok |-> TRUE,
                value |-> CASE variant = "message" ->
                                 [variant |-> variant, base |-> base,
                                  body |-> JsonGet(content, "body")]
                            [] variant = "status" ->
                                 [variant |-> variant, base |-> base,
                                  status |-> VariantOf(StatusType_names,
                                                       JsonGet(content, "status")),
                                  note |-> JsonGet(content, "note")]
                            [] OTHER ->
                                 [variant |-> variant, base |-> base,
                                  attachments |-> JsonGet(content, "attachments")]]

\* The key start_after is given for `since`: the prefix and the instant to
\* the second, followed by "-".
since_key(rfq_id, since_ts) == <<"rfq", rfq_id, "events", format_key_ts(since_ts)>>

\* The order of S3 on the keys under rfq/{id}/events/: by the text of the
\* instant, then by what follows it (nothing, for a since_key; else the id).
S3KeyLess(a, b) ==
    \/ a[4] < b[4]
    \/ /\ a[4] = b[4]
       /\ \/ Len(a) < Len(b)
          \/ Len(a) = 5 /\ Len(b) = 5 /\ a[5] < b[5]

\* The keys in that order: each at the place given by the number of keys
\* before it.
InKeyOrder(keys) ==
    LET ranked == {<<Cardinality({other \in keys : S3KeyLess(other, k)}), k>> : k \in keys}
    IN [i \in 1..Cardinality(keys) |-> (CHOOSE r \in ranked : r[1] = i - 1)[2]]

\* ListObjectsV2 with prefix rfq/{id}/events/, start_after and max_keys.
list_objects_v2(bucket, rfq_id, start_after, max_keys) ==
    LET under == {k \in DOMAIN bucket : IsEventKey(k) /\ k[2] = rfq_id}
        after == {k \in under : IsSome(start_after) => S3KeyLess(Unwrap(start_after), k)}
        ordered == InKeyOrder(after)
    IN SubSeq(ordered, 1, Min(max_keys, Len(ordered)))

\* events.sort_by(timestamp, then id): a stable sort.
EventLe(a, b) == a.base.ts < b.base.ts \/ (a.base.ts = b.base.ts /\ a.base.id <= b.base.id)

RECURSIVE sort_events(_)
sort_events(events) ==
    IF events = << >> THEN << >>
    ELSE LET init == sort_events(SubSeq(events, 1, Len(events) - 1))
             e == events[Len(events)]
             n == Cardinality({i \in 1..Len(init) : EventLe(init[i], e)})
         IN SubSeq(init, 1, n) \o <<e>> \o SubSeq(init, n + 1, Len(init))

\* A default page of 100.
max_keys_of_default_100(limit) ==
    Min(IF IsSome(limit) THEN Unwrap(limit) ELSE 100, LimitCap)

\* The limit list_rfq_events asks S3 for.
max_keys_of(limit) == Min(IF IsSome(limit) THEN Unwrap(limit) ELSE DefaultLimit, LimitCap)

list_rfq_events(bucket, rfq_id, since, limit, s3ok) ==
    LET start_after == IF IsSome(since) THEN Some(since_key(rfq_id, Unwrap(since))) ELSE None
        keys == list_objects_v2(bucket, rfq_id, start_after, max_keys_of(limit))
        decoded == [i \in 1..Len(keys) |-> RfqEvent_from_json(bucket[keys[i]])]
    IN IF ~s3ok THEN [tag |-> "Err", err |-> s3_error_kind, keys |-> << >>]
       ELSE IF \E i \in 1..Len(keys) : ~decoded[i].ok
       THEN [tag |-> "Err", err |-> "Internal", keys |-> keys]
       ELSE [tag |-> "Ok", keys |-> keys,
             value |-> sort_events([i \in 1..Len(keys) |-> decoded[i].value])]

(***************************************************************************)
(* application/src/services.rs: RfqService::get_rfq and list_events, and   *)
(* presentation/src/handlers.rs: the two GET handlers.  Each is one step:  *)
(* it answers the client and changes nothing else.                         *)
(***************************************************************************)
\* format!("{:?}", x).to_lowercase() of an EventAuthor or a StatusType.
debug_to_lowercase ==
    [ Buyer |-> "buyer", Manufacturer |-> "manufacturer", System |-> "system",
      RfqCreated |-> "rfqcreated", VendorViewed |-> "vendorviewed",
      VendorReplied |-> "vendorreplied", BuyerViewed |-> "buyerviewed",
      Closed |-> "closed", Archived |-> "archived" ]

event_to_dto(event) ==
    LET common == [ type |-> event.variant, id |-> event.base.id,
                    rfq_id |-> event.base.rfq_id, ts |-> to_rfc3339(event.base.ts),
                    by |-> debug_to_lowercase[event.base.by] ]
    IN CASE event.variant = "message" -> common @@ [body |-> event.body]
         [] event.variant = "status" ->
                common @@ [status |-> debug_to_lowercase[event.status], note |-> event.note]
         [] OTHER -> common @@ [attachments |-> event.attachments]

\* A response whose cursor is the timestamp of the first item.
ListEventsResponse_first_ts(events) ==
    [ items |-> [i \in 1..Len(events) |-> event_to_dto(events[i])],
      next_since |-> IF events = << >> THEN None ELSE Some(to_rfc3339(events[1].base.ts)) ]

\* Lines 187-196: the DTOs and next_since of the events the repository gave.
ListEventsResponse(events) ==
    [ items |-> [i \in 1..Len(events) |-> event_to_dto(events[i])],
      next_since |-> IF events = << >> THEN None
                     ELSE Some(to_rfc3339(events[Len(events)].base.ts)) ]

\* A since parameter is the text of an instant (two numbers here) or not.
InvalidSince == <<"yesterday">>
since_parses(text) == Len(text) = 2

list_events(bucket, rfq_id, since, limit, s3ok) ==
    IF ~RfqId_new(rfq_id) THEN [tag |-> "Err", err |-> "ValidationFailed", keys |-> << >>]
    ELSE IF IsSome(since) /\ ~since_parses(Unwrap(since))
    THEN [tag |-> "Err", err |-> "ValidationFailed", keys |-> << >>]
    ELSE LET since_dt == IF IsSome(since) THEN Some(parse_from_rfc3339(Unwrap(since)))
                         ELSE None
             events == list_rfq_events(bucket, rfq_id, since_dt, limit, s3ok)
         IN IF events.tag = "Err" THEN events
            ELSE [tag |-> "Ok", keys |-> events.keys,
                  value |-> ListEventsResponse(events.value)]

\* The limit parameter the handler hands on: parsed as u32 (a number that is
\* not negative; the samples stay far below u32::MAX) or dropped, and capped.
handler_limit(param) ==
    IF IsSome(param) /\ Unwrap(param) >= 0
    THEN Some(Min(Unwrap(param), LimitCap)) ELSE None

\* GET /v1/rfqs/{id}/events
list_events_handler(rfq_id, since, limit, s3ok) ==
    /\ Fault(s3ok)
    /\ ~s3ok => RfqId_new(rfq_id) /\ (IsSome(since) => since_parses(Unwrap(since)))
    /\ LET r == list_events(private_bucket, rfq_id, since, handler_limit(limit), s3ok)
       IN listing' = [ cmd |-> "list_events", rfq_id |-> rfq_id, since |-> since,
                       limit |-> limit, fault |-> ~s3ok, keys |-> r.keys,
                       result |-> IF r.tag = "Ok" THEN "Ok" ELSE r.err,
                       items |-> IF r.tag = "Ok" THEN r.value.items ELSE << >>,
                       next_since |-> IF r.tag = "Ok" THEN r.value.next_since ELSE None,
                       meta |-> None ]
    /\ UNCHANGED <<private_bucket, public_bucket, outbox, clock, nextUuid, inv, sample>>

\* A get_rfq whose lookup has no arm for a missing key: the missing meta is an
\* error of the store.
get_rfq_handler_missing_is_error(rfq_id, s3ok) ==
    /\ Fault(s3ok)
    /\ ~s3ok => RfqId_new(rfq_id)
    /\ LET key == rfq_meta_key(rfq_id)
           result == IF ~RfqId_new(rfq_id) THEN "ValidationFailed"
                     ELSE IF ~s3ok \/ key \notin DOMAIN private_bucket THEN s3_error_kind
                     ELSE "Ok"
       IN listing' = [ cmd |-> "get_rfq", rfq_id |-> rfq_id, since |-> None,
                       limit |-> None, fault |-> ~s3ok, keys |-> << >>,
                       result |-> result, items |-> << >>, next_since |-> None,
                       meta |-> IF result = "Ok"
                                THEN Some(RfqMeta_from_json(private_bucket[key]))
                                ELSE None ]
    /\ UNCHANGED <<private_bucket, public_bucket, outbox, clock, nextUuid, inv, sample>>

\* GET /v1/rfqs/{id}: RfqService::get_rfq, and 404 for Ok(None).
get_rfq_handler(rfq_id, s3ok) ==
    /\ Fault(s3ok)
    /\ ~s3ok => RfqId_new(rfq_id)
    /\ LET key == rfq_meta_key(rfq_id)
           result == IF ~RfqId_new(rfq_id) THEN "ValidationFailed"
                     ELSE IF ~s3ok THEN s3_error_kind
                     ELSE IF key \notin DOMAIN private_bucket THEN "NotFound"
                     ELSE "Ok"
       IN listing' = [ cmd |-> "get_rfq", rfq_id |-> rfq_id, since |-> None,
                       limit |-> None, fault |-> ~s3ok, keys |-> << >>,
                       result |-> result, items |-> << >>, next_since |-> None,
                       meta |-> IF result = "Ok"
                                THEN Some(RfqMeta_from_json(private_bucket[key]))
                                ELSE None ]
    /\ UNCHANGED <<private_bucket, public_bucket, outbox, clock, nextUuid, inv, sample>>

Tick ==
    /\ clock < MaxClock
    /\ clock' = clock + 1
    /\ UNCHANGED <<private_bucket, public_bucket, outbox, nextUuid, faults, inv>>
    /\ UNCHANGED reads

\* The caller gives up on the invocation (timeout, crash of the handler).
Abandon(p) ==
    /\ InFlight(p)
    /\ Fault(FALSE)
    /\ inv' = [inv EXCEPT ![p] = Return(Failed(inv[p], "abandon"), "Abandoned", None)]
    /\ UNCHANGED <<private_bucket, public_bucket, outbox, clock, nextUuid>>
    /\ UNCHANGED reads

\* The ids of the stored RFQs.
StoredRfqIds == {k[2] : k \in {x \in DOMAIN private_bucket : IsMetaKey(x)}}

\* The ids a client may put in the path of POST /rfqs/{id}/messages.
PathIds == StoredRfqIds \cup {MissingRfqId, EmptyRfqId}

OptKeys(keys) == {None} \cup {Some(k) : k \in keys}

\* The steps of an invocation after its first.
Step(p) ==
    \/ \E s3ok \in BOOLEAN : create_rfq_get_manufacturer(p, s3ok)
    \/ \E s3ok \in BOOLEAN, d \in {0, 1} : create_rfq_save_meta(p, s3ok, d)
    \/ \E s3ok \in BOOLEAN : create_rfq_save_status_event(p, s3ok)
    \/ \E s3ok \in BOOLEAN : create_rfq_save_message_event(p, s3ok)
    \/ \E s3ok \in BOOLEAN : create_rfq_save_attachment_event(p, s3ok)
    \/ \E s3ok \in BOOLEAN : create_rfq_save_index(p, s3ok)
    \/ \E n \in 0..2 : create_rfq_notify(p, n)
    \/ \E s3ok \in BOOLEAN : create_rfq_store_idempotency(p, s3ok)
    \/ \E s3ok \in BOOLEAN : post_message_get_meta(p, s3ok)
    \/ \E s3ok \in BOOLEAN : post_message_save_event(p, s3ok)
    \/ \E s3ok \in BOOLEAN : post_message_get_index(p, s3ok)
    \/ \E s3ok \in BOOLEAN : post_message_save_index(p, s3ok)
    \/ \E n \in 0..1 : post_message_notify(p, n)
    \/ \E s3ok \in BOOLEAN : post_message_store_idempotency(p, s3ok)
    \/ Abandon(p)

(***************************************************************************)
(* Spec: concurrent invocations of both commands, with valid requests      *)
(* under one idempotency key (or none), addressed to stored RFQs.          *)
(***************************************************************************)
SpecCreates == {1, 3}
SpecPosts == {1}
SpecKeys == {"key-1"}

Next ==
    \/ Tick
    \/ \E p \in 1..NumProcs :
        \/ \E i \in SpecCreates, k \in OptKeys(SpecKeys), s3ok \in BOOLEAN :
               create_rfq_begin(p, i, k, s3ok)
        \/ \E rfq_id \in StoredRfqIds, i \in SpecPosts, k \in OptKeys(SpecKeys),
              s3ok \in BOOLEAN : post_message_begin(p, rfq_id, i, k, s3ok)
        \/ Step(p)

(***************************************************************************)
(* SpecInputs: every request of the lists above, valid or not, under       *)
(* either key, to any path id; an invocation begins when none is running.  *)
(***************************************************************************)
Quiescent == \A q \in Procs : ~InFlight(q)

NextInputs ==
    \/ Tick
    \/ \E p \in 1..NumProcs :
        \/ /\ Quiescent
           /\ \E i \in 1..Len(CreateRfqRequests), k \in OptKeys(IdempotencyKeys),
                 s3ok \in BOOLEAN : create_rfq_begin(p, i, k, s3ok)
        \/ /\ Quiescent
           /\ \E rfq_id \in PathIds, i \in 1..Len(PostMessageRequests),
                 k \in OptKeys(IdempotencyKeys), s3ok \in BOOLEAN :
                 post_message_begin(p, rfq_id, i, k, s3ok)
        \/ Step(p)

SpecInputs == Init /\ [][NextInputs]_vars

(***************************************************************************)
(* SpecReplay: NumCalls invocations one after the other, each under an     *)
(* idempotency key: valid requests, addressed to a stored RFQ or to a path *)
(* id RfqId::new rejects.                                                  *)
(***************************************************************************)
NextReplay ==
    \/ Tick
    \/ \E p \in Procs :
        \/ /\ Quiescent
           /\ \E i \in SpecCreates, k \in IdempotencyKeys, s3ok \in BOOLEAN :
                 create_rfq_begin(p, i, Some(k), s3ok)
        \/ /\ Quiescent
           /\ \E rfq_id \in StoredRfqIds \cup {EmptyRfqId}, i \in {1, 2}, k \in IdempotencyKeys,
                 s3ok \in BOOLEAN : post_message_begin(p, rfq_id, i, Some(k), s3ok)
        \/ Step(p)

SpecReplay == Init /\ [][NextReplay]_vars

Spec == Init /\ [][Next]_vars

(***************************************************************************)
(* SpecLog: the event log of one RFQ.  The first invocation creates the    *)
(* RFQ and, once it has answered, the others append messages to it,       *)
(* concurrently; the creation may carry one idempotency key and the        *)
(* messages another.                                                       *)
(***************************************************************************)
LogCreates == {1, 3}
LogPosts == {1}

NextLog ==
    \/ Tick
    \/ \E i \in LogCreates, k \in OptKeys({"key-1"}), s3ok \in BOOLEAN :
           create_rfq_begin(1, i, k, s3ok)
    \/ /\ 1 \in Returned
       /\ \E p \in Procs \ {1}, rfq_id \in StoredRfqIds, i \in LogPosts,
             k \in OptKeys({"key-2"}), s3ok \in BOOLEAN :
              post_message_begin(p, rfq_id, i, k, s3ok)
    \/ \E p \in Procs : Step(p)

SpecLog == Init /\ [][NextLog]_vars

(***************************************************************************)
(* SpecReads: what the read-only requests answer.  A creation and then a   *)
(* message, one after the other; then the client reads: at any moment of   *)
(* the commands the stored RFQ, and between them any id with any of the    *)
(* sample parameters.  After a page of events it may ask for the next one, *)
(* with the next_since it was given.  The commands come first: once the    *)
(* client has started reading, nothing is written.                         *)
(***************************************************************************)
ReadIds == StoredRfqIds \cup {MissingRfqId, EmptyRfqId}

ListQueries ==
    { <<None, None>>, <<None, Some(0)>>, <<None, Some(1)>>, <<None, Some(LimitCap + 50)>>,
      <<Some(InvalidSince), None>>, <<Some(to_rfc3339(0)), None>>,
      <<Some(to_rfc3339(0)), Some(1)>>, <<Some(to_rfc3339(TicksPerSec)), None>> }

NextReads ==
    \/ listing = NoListing /\ Tick
    \/ /\ listing = NoListing /\ Quiescent
       /\ \E i \in SpecCreates, k \in OptKeys({"key-1"}), s3ok \in BOOLEAN :
              create_rfq_begin(1, i, k, s3ok)
    \/ /\ listing = NoListing /\ Quiescent
       /\ \E rfq_id \in StoredRfqIds, i \in LogPosts, k \in OptKeys({"key-2"}),
             s3ok \in BOOLEAN : post_message_begin(2, rfq_id, i, k, s3ok)
    \/ listing = NoListing /\ \E p \in 1..NumProcs : Step(p)
    \/ /\ listing = NoListing
       /\ \E rfq_id \in StoredRfqIds, s3ok \in BOOLEAN : get_rfq_handler(rfq_id, s3ok)
    \/ /\ listing = NoListing
       /\ \E rfq_id \in StoredRfqIds, s3ok \in BOOLEAN :
              list_events_handler(rfq_id, None, None, s3ok)
    \/ /\ listing = NoListing /\ Quiescent
       /\ \E rfq_id \in ReadIds, s3ok \in BOOLEAN : get_rfq_handler(rfq_id, s3ok)
    \/ /\ listing = NoListing /\ Quiescent
       /\ \E rfq_id \in ReadIds, q \in ListQueries, s3ok \in BOOLEAN :
              list_events_handler(rfq_id, q[1], q[2], s3ok)
    \/ /\ listing.cmd = "list_events" /\ listing.result = "Ok"
       /\ \E s3ok \in BOOLEAN :
              list_events_handler(listing.rfq_id, listing.next_since, listing.limit, s3ok)

SpecReads == Init /\ [][NextReads]_vars

(***************************************************************************)
(* SpecPage: the pure steps of a listing, applied to sample inputs.  The   *)
(* page S3 is asked for, for a store of any of the sample sizes and any of *)
(* the sample limit parameters; and the sort and the response, for any     *)
(* short sequence of events as RfqEvent::new_message, new_status and       *)
(* new_attachment build them.                                              *)
(***************************************************************************)
MaxPage == 3
SampleRfq == <<"r", "_", "0", "0", "0", "0", "0", "0", "0", "1">>
SampleSizes == {0, 1, DefaultLimit - 1, DefaultLimit, DefaultLimit + 1,
                LimitCap - 1, LimitCap, LimitCap + 1, LimitCap + 50}
SampleLimits == {None, Some(-1), Some(0), Some(1), Some(DefaultLimit + 1), Some(LimitCap),
                 Some(LimitCap + 1), Some(LimitCap + 50)}
SampleTs == 0..TicksPerSec
SampleUuids == 1..3

SampleMessages ==
    {new_message(u, t, SampleRfq, "Buyer", <<"h", "i">>) : u \in SampleUuids, t \in SampleTs}

SampleEvents ==
    SampleMessages
    \cup {new_message(u, t, SampleRfq, "Manufacturer", <<"o", "k">>) :
              u \in SampleUuids, t \in SampleTs}
    \cup {new_status(u, t, SampleRfq, "System", st, None) :
              u \in SampleUuids, t \in SampleTs, st \in DOMAIN StatusType_names}
    \cup {new_attachment(u, t, SampleRfq, "Buyer", << >>) : u \in SampleUuids, t \in SampleTs}

\* A store holding n events of SampleRfq.
StoreOf(n) ==
    [k \in {<<"rfq", SampleRfq, "events", 0, u>> : u \in 1..n} |->
        RfqEvent_to_json(new_message(k[5], 0, SampleRfq, "Buyer", <<"h", "i">>))]

Samples ==
    {[stage |-> "stored", stored |-> n, limit |-> l, keys |-> << >>, events |-> << >>,
      response |-> None] : n \in SampleSizes, l \in SampleLimits}
    \cup
    {[stage |-> "decoded", stored |-> 0, limit |-> None, keys |-> << >>, events |-> es,
      response |-> None] :
        es \in {<<e>> : e \in SampleEvents}
               \cup UNION {[1..n -> SampleMessages] : n \in {0} \cup 2..MaxPage}}

InitPage ==
    /\ private_bucket = EmptyBucket
    /\ public_bucket = Put(EmptyBucket, manufacturer_key(ManufacturerA.id), ManufacturerA)
    /\ outbox = {}
    /\ clock = 0
    /\ nextUuid = 1
    /\ faults = 0
    /\ inv = [p \in Procs |-> IdleInv]
    /\ listing = NoListing
    /\ sample \in Samples

\* handlers.rs 87-90 and s3.rs 152-172: the keys S3 is asked for.
page_step ==
    /\ sample.stage = "stored"
    /\ sample' = [sample EXCEPT
                     !.stage = "listed",
                     !.keys = list_objects_v2(StoreOf(sample.stored), SampleRfq, None,
                                              max_keys_of(handler_limit(sample.limit)))]
    /\ UNCHANGED <<private_bucket, public_bucket, outbox, clock, nextUuid, faults, inv, listing>>

\* s3.rs 197-203.
sort_step ==
    /\ sample.stage = "decoded"
    /\ sample' = [sample EXCEPT !.stage = "sorted", !.keys = sample.events,
                                !.events = sort_events(sample.events)]
    /\ UNCHANGED <<private_bucket, public_bucket, outbox, clock, nextUuid, faults, inv, listing>>

\* services.rs 187-196.
respond_step ==
    /\ sample.stage = "sorted"
    /\ sample' = [sample EXCEPT !.stage = "response",
                                !.response = Some(ListEventsResponse(sample.events))]
    /\ UNCHANGED <<private_bucket, public_bucket, outbox, clock, nextUuid, faults, inv, listing>>

NextPage == page_step \/ sort_step \/ respond_step

SpecPage == InitPage /\ [][NextPage]_vars

(***************************************************************************)
(* infrastructure/src/s3.rs: get_rfq_meta, get_rfq_index and               *)
(* get_manufacturer, as functions of the bucket, the id and what goes      *)
(* wrong in the call: nothing ("none"), the request ("service": a timeout, *)
(* a refusal, any error of the service but a missing key) or the reading   *)
(* of the body it answered with ("body").                                  *)
(***************************************************************************)
S3Failures == {"none", "service", "body"}

\* client.get_object().bucket(..).key(..).send().await
get_object(bucket, key, failure) ==
    IF failure = "service" THEN [tag |-> "Err", error |-> "ServiceError"]
    ELSE IF key \notin DOMAIN bucket THEN [tag |-> "Err", error |-> "NoSuchKey"]
    ELSE [tag |-> "Ok", collected |-> failure # "body", bytes |-> bucket[key]]

\* The members serde asks for (an Option may be missing).
RfqMeta_fields ==
    {"id", "tenant_id", "manufacturer_id", "buyer", "subject", "status", "created_at",
     "last_event_ts", "participants"}
RfqIndex_fields == {"last_event_ts", "count"}
ManufacturerProfile_fields == {"id", "name"}

get_rfq_meta(bucket, id, failure) ==
    LET output == get_object(bucket, rfq_meta_key(id), failure)
    IN IF output.tag = "Ok"
       THEN IF ~output.collected THEN [tag |-> "Err", err |-> "Internal"]
            ELSE IF \E f \in RfqMeta_fields : ~JsonHas(output.bytes, f)
            THEN [tag |-> "Err", err |-> "Internal"]
            ELSE [tag |-> "Ok", value |-> Some(RfqMeta_from_json(output.bytes))]
       ELSE IF output.error = "NoSuchKey" THEN [tag |-> "Ok", value |-> None]
       ELSE [tag |-> "Err", err |-> "Internal"]

\* A lookup that takes a body it cannot deserialize for a missing index.
get_rfq_index_lenient(bucket, id, failure) ==
    LET output == get_object(bucket, rfq_index_key(id), failure)
    IN IF output.tag = "Ok"
       THEN IF ~output.collected THEN [tag |-> "Err", err |-> "Internal"]
            ELSE IF \E f \in RfqIndex_fields : ~JsonHas(output.bytes, f)
            THEN [tag |-> "Ok", value |-> None]
            ELSE [tag |-> "Ok", value |-> Some(RfqIndex_from_json(output.bytes))]
       ELSE IF output.error = "NoSuchKey" THEN [tag |-> "Ok", value |-> None]
       ELSE [tag |-> "Err", err |-> "Internal"]

get_rfq_index(bucket, id, failure) ==
    LET output == get_object(bucket, rfq_index_key(id), failure)
    IN IF output.tag = "Ok"
       THEN IF ~output.collected THEN [tag |-> "Err", err |-> "Internal"]
            ELSE IF \E f \in RfqIndex_fields : ~JsonHas(output.bytes, f)
            THEN [tag |-> "Err", err |-> "Internal"]
            ELSE [tag |-> "Ok", value |-> Some(RfqIndex_from_json(output.bytes))]
       ELSE IF output.error = "NoSuchKey" THEN [tag |-> "Ok", value |-> None]
       ELSE [tag |-> "Err", err |-> "Internal"]

\* The profiles of the public bucket are kept as records.
get_manufacturer(bucket, id, failure) ==
    LET output == get_object(bucket, manufacturer_key(id), failure)
    IN IF output.tag = "Ok"
       THEN IF ~output.collected THEN [tag |-> "Err", err |-> "Internal"]
            ELSE IF ~(ManufacturerProfile_fields \subseteq DOMAIN output.bytes)
            THEN [tag |-> "Err", err |-> "Internal"]
            ELSE [tag |-> "Ok", value |-> Some(output.bytes)]
       ELSE IF output.error = "NoSuchKey" THEN [tag |-> "Ok", value |-> None]
       ELSE [tag |-> "Err", err |-> "Internal"]

(***************************************************************************)
(* SpecGet: the three lookups applied to sample stores.  The bucket holds  *)
(* one object, under the key of the id that is looked up or under the key  *)
(* of another id; its body is one the program writes or one that does not  *)
(* deserialize; and the call fails in any of the ways above.               *)
(***************************************************************************)
SampleMetas ==
    {[ id |-> SampleRfq, tenant_id |-> ValidCreate.tenant_id,
       manufacturer_id |-> ValidCreate.manufacturer_id,
       buyer |-> [email |-> ValidCreate.buyer.email, name |-> ValidCreate.buyer.name],
       subject |-> ValidCreate.subject, status |-> st, created_at |-> t,
       last_event_ts |-> t, participants |-> << >>, attachments |-> None ] :
        st \in DOMAIN RfqStatus_names, t \in SampleTs}

SampleIndexes == {[last_event_ts |-> t, count |-> c] : t \in SampleTs, c \in 0..3}

\* Bodies with the object they were written from, or None for a body that
\* does not deserialize.
SampleBodies(getter) ==
    CASE getter = "get_rfq_meta" ->
            {[bytes |-> RfqMeta_to_json(m), from |-> Some(m)] : m \in SampleMetas}
            \cup {[bytes |-> b, from |-> None] :
                     b \in {<< >>, RfqIndex_to_json([last_event_ts |-> 0, count |-> 2]),
                            SelectSeq(RfqMeta_to_json(CHOOSE m \in SampleMetas : TRUE),
                                      LAMBDA member : member[1] # "status")}}
      [] getter = "get_rfq_index" ->
            {[bytes |-> RfqIndex_to_json(ix), from |-> Some(ix)] : ix \in SampleIndexes}
            \cup {[bytes |-> b, from |-> None] : b \in {<< >>, << <<"count", 1>> >>}}
      [] getter = "get_manufacturer" ->
            {[bytes |-> ManufacturerA, from |-> Some(ManufacturerA)],
             [bytes |-> [id |-> ManufacturerA.id], from |-> None]}

SampleIds(getter) ==
    IF getter = "get_manufacturer"
    THEN <<ManufacturerA.id, <<"m","f","g","_","Z">>>>
    ELSE <<SampleRfq, MissingRfqId>>

Lookups(getter) ==
    {[stage |-> "lookup", getter |-> getter, body |-> b, present |-> present, failure |-> f,
      result |-> None] :
        b \in SampleBodies(getter), present \in BOOLEAN, f \in S3Failures}

InitGet ==
    /\ private_bucket = EmptyBucket
    /\ public_bucket = Put(EmptyBucket, manufacturer_key(ManufacturerA.id), ManufacturerA)
    /\ outbox = {}
    /\ clock = 0
    /\ nextUuid = 1
    /\ faults = 0
    /\ inv = [p \in Procs |-> IdleInv]
    /\ listing = NoListing
    /\ \/ sample \in Lookups("get_rfq_meta")
       \/ sample \in Lookups("get_rfq_index")
       \/ sample \in Lookups("get_manufacturer")

\* The bucket of the sample: the body under the key of the id looked up
\* (the first of the sample ids) or under the key of the other id.
SampleStore(l) ==
    LET id == SampleIds(l.getter)[IF l.present THEN 1 ELSE 2]
    IN Put(EmptyBucket,
           CASE l.getter = "get_rfq_meta" -> rfq_meta_key(id)
             [] l.getter = "get_rfq_index" -> rfq_index_key(id)
             [] l.getter = "get_manufacturer" -> manufacturer_key(id),
           l.body.bytes)

get_step ==
    /\ sample.stage = "lookup"
    /\ LET bucket == SampleStore(sample)
           id == SampleIds(sample.getter)[1]
       IN sample' = [sample EXCEPT
              !.stage = "looked_up",
              !.result = Some(CASE sample.getter = "get_rfq_meta" ->
                                      get_rfq_meta(bucket, id, sample.failure)
                                [] sample.getter = "get_rfq_index" ->
                                      get_rfq_index(bucket, id, sample.failure)
                                [] sample.getter = "get_manufacturer" ->
                                      get_manufacturer(bucket, id, sample.failure))]
    /\ UNCHANGED <<private_bucket, public_bucket, outbox, clock, nextUuid, faults, inv, listing>>

SpecGet == InitGet /\ [][get_step]_vars

(***************************************************************************)
(* presentation/src/error.rs and handlers.rs: what a handler answers when  *)
(* its service call returns a DomainError.  A text is the sequence of the  *)
(* pieces format! puts together.                                           *)
(***************************************************************************)
\* #[error("...: {0}")] of DomainError.
DomainError_display(err) ==
    << CASE err.kind = "InvalidInput" -> "Invalid input: "
         [] err.kind = "ValidationFailed" -> "Validation failed: "
         [] err.kind = "NotFound" -> "Not found: "
         [] err.kind = "Conflict" -> "Conflict: "
         [] err.kind = "Internal" -> "Internal error: " >> \o err.msg

AppError_new(status, code, message) == [status |-> status, code |-> code, message |-> message]

AppError_internal_server_error(message) == AppError_new(500, "internal_error", message)

\* impl From<DomainError> for AppError
AppError_from(err) ==
    CASE err.kind = "ValidationFailed" -> AppError_new(400, "validation_error", err.msg)
      [] err.kind = "NotFound" -> AppError_new(404, "not_found", err.msg)
      [] err.kind = "Conflict" -> AppError_new(409, "conflict", err.msg)
      [] err.kind = "InvalidInput" -> AppError_new(400, "invalid_input", err.msg)
      [] err.kind = "Internal" ->
            AppError_new(500, "internal_error", <<"An internal error occurred">>)

\* impl IntoResponse for AppError (no handler sets details).
AppError_into_response(e) ==
    [status |-> e.status, body |-> << <<"code", e.code>>, <<"message", e.message>> >>]

RfqEndpoints == {"create_rfq", "get_rfq", "list_events", "post_message"}

\* The map_err of each handler.
handler_map_err(endpoint, err) ==
    CASE endpoint \in RfqEndpoints -> AppError_from(err)
      [] endpoint = "presign_upload" ->
            AppError_internal_server_error(
                <<"Failed to generate upload URL: ">> \o DomainError_display(err))
      [] endpoint = "create_manufacturer" ->
            AppError_internal_server_error(
                <<"Failed to create manufacturer: ">> \o DomainError_display(err))

(***************************************************************************)
(* SpecErrors: the answer of each endpoint to each error its service call  *)
(* can return: any DomainError for the RFQ endpoints; an Internal error,   *)
(* with the text of the failed S3 call, for presign_upload                 *)
(* (generate_presigned_upload_url) and create_manufacturer                 *)
(* (save_manufacturer).                                                    *)
(***************************************************************************)
\* The text of an Internal error of the S3 adapter: the adapter's prefix, then
\* the text of the SDK error.
SdkTexts ==
    {"dispatch failure", "service error: AccessDenied", "timeout", "credentials not loaded"}

AdapterPrefixes(endpoint) ==
    CASE endpoint = "presign_upload" ->
            {"Failed to create presigning config: ", "Failed to generate presigned URL: "}
      [] endpoint = "create_manufacturer" -> {"Failed to save manufacturer: "}
      [] endpoint = "create_rfq" -> {"Failed to save RFQ meta: ", "Failed to check idempotency: "}
      [] endpoint = "get_rfq" -> {"Failed to get RFQ meta: ", "Failed to read RFQ meta body: "}
      [] endpoint = "list_events" -> {"Failed to list RFQ events: ", "Failed to deserialize event: "}
      [] endpoint = "post_message" -> {"Failed to save RFQ event: ", "Failed to get RFQ index: "}

BackendTexts(endpoint) == {<<a, t>> : a \in AdapterPrefixes(endpoint), t \in SdkTexts}

CallerTexts ==
    { <<"RFQ not found">>, <<"Manufacturer not found">>, <<"Invalid author role">>,
      <<"Idempotency key reused with different body">> }

DomainErrors(endpoint) ==
    IF endpoint \in RfqEndpoints
    THEN {[kind |-> k, msg |-> m] :
              k \in {"InvalidInput", "ValidationFailed", "NotFound", "Conflict"},
              m \in CallerTexts}
         \cup {[kind |-> "Internal", msg |-> m] : m \in BackendTexts(endpoint)}
    ELSE {[kind |-> "Internal", msg |-> m] : m \in BackendTexts(endpoint)}

InitErrors ==
    /\ private_bucket = EmptyBucket
    /\ public_bucket = Put(EmptyBucket, manufacturer_key(ManufacturerA.id), ManufacturerA)
    /\ outbox = {}
    /\ clock = 0
    /\ nextUuid = 1
    /\ faults = 0
    /\ inv = [p \in Procs |-> IdleInv]
    /\ listing = NoListing
    /\ \E endpoint \in RfqEndpoints \cup {"presign_upload", "create_manufacturer"} :
          sample \in {[stage |-> "error", endpoint |-> endpoint, err |-> e, response |-> None] :
                         e \in DomainErrors(endpoint)}

error_step ==
    /\ sample.stage = "error"
    /\ sample' = [sample EXCEPT
                     !.stage = "answered",
                     !.response = Some(AppError_into_response(
                                           handler_map_err(sample.endpoint, sample.err)))]
    /\ UNCHANGED <<private_bucket, public_bucket, outbox, clock, nextUuid, faults, inv, listing>>

SpecErrors == InitErrors /\ [][error_step]_vars

(***************************************************************************)
(* SpecSizes: FileSize::new and as_u64 on sample sizes: the sizes next to  *)
(* zero, the sizes around MAX_SIZE_BYTES, and some others.                 *)
(***************************************************************************)
SizeSpan == 24

SampleFileSizes ==
    0..SizeSpan
    \cup {n \in (MAX_SIZE_BYTES - SizeSpan)..(MAX_SIZE_BYTES + SizeSpan) : TRUE}
    \cup {1024, 16 * 1024 * 1024, 2147483647}

\* The value FileSize::new returns: the wrapped size, or the error.
FileSize_new_result(size_bytes) ==
    IF FileSize_new(size_bytes)
    THEN [tag |-> "Ok", value |-> [size |-> size_bytes]]
    ELSE [tag |-> "Err", err |-> "ValidationFailed"]

FileSize_as_u64(file_size) == file_size.size

InitSizes ==
    /\ private_bucket = EmptyBucket
    /\ public_bucket = Put(EmptyBucket, manufacturer_key(ManufacturerA.id), ManufacturerA)
    /\ outbox = {}
    /\ clock = 0
    /\ nextUuid = 1
    /\ faults = 0
    /\ inv = [p \in Procs |-> IdleInv]
    /\ listing = NoListing
    /\ sample \in {[stage |-> "size", size_bytes |-> n, result |-> None, as_u64 |-> None] :
                      n \in SampleFileSizes}

\* let file_size = FileSize::new(request.size_bytes)
size_new_step ==
    /\ sample.stage = "size"
    /\ sample' = [sample EXCEPT !.stage = "built",
                                !.result = Some(FileSize_new_result(sample.size_bytes))]
    /\ UNCHANGED <<private_bucket, public_bucket, outbox, clock, nextUuid, faults, inv, listing>>

\* file_size.as_u64()
size_as_u64_step ==
    /\ sample.stage = "built"
    /\ Unwrap(sample.result).tag = "Ok"
    /\ sample' = [sample EXCEPT !.stage = "read",
                                !.as_u64 = Some(FileSize_as_u64(Unwrap(sample.result).value))]
    /\ UNCHANGED <<private_bucket, public_bucket, outbox, clock, nextUuid, faults, inv, listing>>

SpecSizes == InitSizes /\ [][size_new_step \/ size_as_u64_step]_vars

(***************************************************************************)
(* SpecIndex: the index of one RFQ under concurrent messages.  A creation  *)
(* without attachments runs alone; when its handler has returned and its   *)
(* invocation is over, up to NumCalls post_message invocations without     *)
(* idempotency key run concurrently against the RFQ it stored.  Calls to   *)
(* S3 and SES may fail and callers may give up, in either command.         *)
(***************************************************************************)
\* The handler of invocation p has returned: nothing of it is left.
handler_returned(p) ==
    /\ inv[p].pc = "done"
    /\ inv' = [inv EXCEPT ![p] = IdleInv]
    /\ UNCHANGED <<private_bucket, public_bucket, outbox, clock, nextUuid, faults>>
    /\ UNCHANGED reads

NextIndex ==
    \/ Tick
    \/ private_bucket = EmptyBucket /\ create_rfq_begin(1, 1, None, TRUE)
    \/ \E s3ok \in BOOLEAN : create_rfq_get_manufacturer(1, s3ok)
    \/ \E s3ok \in BOOLEAN, d \in {0, 1} : create_rfq_save_meta(1, s3ok, d)
    \/ \E s3ok \in BOOLEAN : create_rfq_save_status_event(1, s3ok)
    \/ \E s3ok \in BOOLEAN : create_rfq_save_message_event(1, s3ok)
    \/ \E s3ok \in BOOLEAN : create_rfq_save_index(1, s3ok)
    \/ \E n \in 0..2 : create_rfq_notify(1, n)
    \/ inv[1].cmd = "create_rfq" /\ handler_returned(1)
    \/ /\ \A q \in Procs : inv[q].cmd # "create_rfq"
       /\ \E p \in Procs, rfq_id \in StoredRfqIds : post_message_begin(p, rfq_id, 1, None, TRUE)
    \/ \E p \in Procs :
          \/ \E s3ok \in BOOLEAN : post_message_get_meta(p, s3ok)
          \/ \E s3ok \in BOOLEAN : post_message_save_event(p, s3ok)
          \/ \E s3ok \in BOOLEAN : post_message_get_index(p, s3ok)
          \/ \E s3ok \in BOOLEAN : post_message_save_index(p, s3ok)
          \/ \E n \in 0..1 : post_message_notify(p, n)
          \/ Abandon(p)

SpecIndex == Init /\ [][NextIndex]_vars

(***************************************************************************)
(* SpecTwoRfqs: messages under one idempotency key to several RFQs.  The   *)
(* first slot creates up to NumRfqs RFQs, one after the other; then the    *)
(* slots post messages, one after the other, under the key "key-1", each   *)
(* to any of the stored RFQs.  Calls may fail and callers may give up.     *)
(***************************************************************************)
NumRfqs == 2

NextTwoRfqs ==
    \/ Tick
    \/ /\ Cardinality(StoredRfqIds) < NumRfqs
       /\ create_rfq_begin(1, 1, None, TRUE)
    \/ \E s3ok \in BOOLEAN : create_rfq_get_manufacturer(1, s3ok)
    \/ \E s3ok \in BOOLEAN, d \in {0, 1} : create_rfq_save_meta(1, s3ok, d)
    \/ \E s3ok \in BOOLEAN : create_rfq_save_status_event(1, s3ok)
    \/ \E s3ok \in BOOLEAN : create_rfq_save_message_event(1, s3ok)
    \/ \E s3ok \in BOOLEAN : create_rfq_save_index(1, s3ok)
    \/ \E n \in 0..2 : create_rfq_notify(1, n)
    \/ inv[1].cmd = "create_rfq" /\ handler_returned(1)
    \/ /\ Quiescent
       /\ \E p \in Procs, rfq_id \in StoredRfqIds, i \in {1, 2}, s3ok \in BOOLEAN :
              post_message_begin(p, rfq_id, i, Some("key-1"), s3ok)
    \/ \E p \in Procs :
          \/ \E s3ok \in BOOLEAN : post_message_get_meta(p, s3ok)
          \/ \E s3ok \in BOOLEAN : post_message_save_event(p, s3ok)
          \/ \E s3ok \in BOOLEAN : post_message_get_index(p, s3ok)
          \/ \E s3ok \in BOOLEAN : post_message_save_index(p, s3ok)
          \/ \E n \in 0..1 : post_message_notify(p, n)
          \/ \E s3ok \in BOOLEAN : post_message_store_idempotency(p, s3ok)
          \/ Abandon(p)

SpecTwoRfqs == Init /\ [][NextTwoRfqs]_vars

(***************************************************************************)
(* What the history of the invocations says.                               *)
(***************************************************************************)
Started(p) == inv[p].pc # "idle"
Done(p) == inv[p].pc = "done"

BodyHashOf(rec) ==
    IF rec.cmd = "create_rfq"
    THEN compute_request_hash(CreateRfqRequests[rec.req])
    ELSE compute_message_hash(PostMessageRequests[rec.req])

WroteKeys(p) == {inv[p].wrote[i] : i \in 1..Len(inv[p].wrote)}
EventsWrittenBy(p) == {k \in WroteKeys(p) : IsEventKey(k)}
MetasWrittenBy(p) == {k \in WroteKeys(p) : IsMetaKey(k)}
EmailsBy(p) == {e \in outbox : e.inv = p}
UsersOf(k) == {p \in Procs : Started(p) /\ inv[p].key = k}

\* p and q are invocations of the same command with the same idempotency
\* key and the same request (for post_message: to the same RFQ).
SameCommand(p, q) ==
    /\ p # q /\ Started(p) /\ Started(q)
    /\ inv[p].cmd = inv[q].cmd
    /\ IsSome(inv[p].key) /\ inv[p].key = inv[q].key
    /\ inv[p].req = inv[q].req
    /\ inv[p].cmd = "post_message" => inv[p].rfq_id = inv[q].rfq_id

\* q was called after p had returned.
After(p, q) == Started(q) /\ p \in inv[q].pre
Concurrent(p, q) == Started(p) /\ Started(q) /\ p \notin inv[q].pre /\ q \notin inv[p].pre

\* p is a create_rfq that returned Ok, q the same request under the same key
\* issued after that, and nobody else uses the key.
IssuedTwice(p, q) ==
    /\ SameCommand(p, q) /\ inv[p].cmd = "create_rfq"
    /\ Done(p) /\ inv[p].result = "Ok" /\ After(p, q)
    /\ UsersOf(inv[p].key) = {p, q}

(***************************************************************************)
(* C1. The identical create_rfq request issued twice under the same        *)
(* idempotency key, the second call after the first returned Ok: the       *)
(* second call returns the response of the first (same id, same            *)
(* last_event_ts) unless the idempotency store could not be read, and it   *)
(* persists nothing and notifies nobody: the two calls together leave one  *)
(* RfqMeta and one set of events.                                          *)
(***************************************************************************)
C1_IdenticalRequestTwice ==
    \A p, q \in Procs :
        IssuedTwice(p, q) =>
            /\ Done(q)
            /\ inv[q].fault = "none" =>
                  inv[q].result = "Ok" /\ inv[q].response = inv[p].response
            /\ WroteKeys(q) = {} /\ EmailsBy(q) = {}
            /\ Cardinality(MetasWrittenBy(p) \cup MetasWrittenBy(q)) = 1
            /\ EventsWrittenBy(p) \cup EventsWrittenBy(q) = EventsWrittenBy(p)

C1_SecondCallReplayed ==
    \E p, q \in Procs :
        /\ IssuedTwice(p, q) /\ inv[q].replayed /\ inv[q].result = "Ok"
        /\ EventsWrittenBy(p) # {}

(***************************************************************************)
(* C2. An invocation under key k fails or is abandoned after one of its    *)
(* events was persisted; a retry with the same key and the same request    *)
(* persists no second copy of the events.                                  *)
(***************************************************************************)
C2_RetryPersistsNoSecondCopy ==
    \A p, q \in Procs :
        ( /\ SameCommand(p, q) /\ After(p, q)
          /\ Done(p) /\ inv[p].result # "Ok"
          /\ EventsWrittenBy(p) # {} )
        => EventsWrittenBy(q) = {}

(***************************************************************************)
(* C3. Two concurrent invocations of the same command with the same key    *)
(* and the same request: one set of events is persisted, at most one of    *)
(* them notifies, and when both returned Ok one was answered from the      *)
(* stored response.                                                        *)
(***************************************************************************)
C3_ConcurrentSameKeyOnce ==
    \A p, q \in Procs :
        (SameCommand(p, q) /\ Concurrent(p, q)) =>
            /\ EventsWrittenBy(p) = {} \/ EventsWrittenBy(q) = {}
            /\ EmailsBy(p) = {} \/ EmailsBy(q) = {}
            /\ (Done(p) /\ Done(q) /\ inv[p].result = "Ok" /\ inv[q].result = "Ok")
                  => inv[p].replayed \/ inv[q].replayed

(***************************************************************************)
(* The first step of an invocation, in which it consults the idempotency   *)
(* store, and what it found there.                                         *)
(***************************************************************************)
Begins(q) == inv[q].pc = "idle" /\ inv'[q].pc # "idle"
RecordFound(rec) ==
    IsSome(rec.key) /\ idempotency_key(Unwrap(rec.key)) \in DOMAIN private_bucket
FoundHash(rec) == JsonGet(private_bucket[idempotency_key(Unwrap(rec.key))], "body_hash")
FoundResponse(rec) == JsonGet(private_bucket[idempotency_key(Unwrap(rec.key))], "response")
InvalidPathId(rec) == rec.cmd = "post_message" /\ ~RfqId_new(Unwrap(rec.rfq_id))
ResponseJson(rec) ==
    IF rec.cmd = "create_rfq" THEN CreateRfqResponse_to_json(Unwrap(rec.response))
    ELSE PostMessageResponse_to_json(Unwrap(rec.response))
NoSideEffect(q) ==
    /\ inv'[q].wrote = << >>
    /\ UNCHANGED <<private_bucket, public_bucket, outbox>>

\* The record of a key is stored under an address computed from the key
\* alone, and different keys have different addresses.
AddressedByKeyAlone ==
    /\ \A k1, k2 \in IdempotencyKeys :
          idempotency_key(k1) = idempotency_key(k2) <=> k1 = k2
    /\ \A p \in Procs : \A w \in WroteKeys(p) :
          IsIdemKey(w) => IsSome(inv[p].key) /\ w = idempotency_key(Unwrap(inv[p].key))

\* An earlier command under the key of rec completed and stored its result
\* with a body hash other than that of rec.
StoredWithOtherBody(rec) ==
    \E p \in Procs :
        /\ Done(p) /\ inv[p].result = "Ok" /\ inv[p].key = rec.key
        /\ IsSome(rec.key) /\ idempotency_key(Unwrap(rec.key)) \in WroteKeys(p)
        /\ BodyHashOf(inv[p]) # BodyHashOf(rec)

C5_MatchingBodyAlwaysReplays ==
    [][ \A q \in Procs :
          ( /\ Begins(q) /\ RecordFound(inv'[q])
            /\ FoundHash(inv'[q]) = BodyHashOf(inv'[q])
            /\ faults' = 0 ) =>
              /\ inv'[q].pc = "done" /\ inv'[q].result = "Ok"
              /\ ResponseJson(inv'[q]) = FoundResponse(inv'[q])
              /\ inv'[q].calls = <<"check_idempotency">>
              /\ NoSideEffect(q) ]_vars

(***************************************************************************)
(* C5, amended.  The same, except that a post_message to a path id         *)
(* RfqId::new rejects returns ValidationFailed before the store is         *)
(* consulted, and that a failed read of the store returns Internal; in     *)
(* each case nothing is written, looked up or sent.                        *)
(***************************************************************************)
C5_MatchingBodyReplays ==
    [][ \A q \in Procs :
          ( /\ Begins(q) /\ RecordFound(inv'[q])
            /\ FoundHash(inv'[q]) = BodyHashOf(inv'[q]) ) =>
              /\ inv'[q].pc = "done"
              /\ IF InvalidPathId(inv'[q])
                 THEN inv'[q].result = "ValidationFailed" /\ inv'[q].calls = << >>
                 ELSE /\ inv'[q].calls = <<"check_idempotency">>
                      /\ IF inv'[q].fault = "s3" THEN inv'[q].result = "Internal"
                         ELSE /\ inv'[q].result = "Ok"
                              /\ ResponseJson(inv'[q]) = FoundResponse(inv'[q])
              /\ NoSideEffect(q) ]_vars

C5_MessageReplayed ==
    \E q \in Procs :
        /\ Done(q) /\ inv[q].cmd = "post_message" /\ inv[q].replayed
        /\ inv[q].result = "Ok" /\ ResponseJson(inv[q]) = FoundResponse(inv[q])

(***************************************************************************)
(* C6. An invocation that returned ValidationFailed made no durable write  *)
(* and sent no notification: the only port calls it made are reads.        *)
(***************************************************************************)
ReadCalls == {"check_idempotency", "get_manufacturer", "get_rfq_meta", "get_rfq_index"}

C6_ValidationFailedWritesNothing ==
    \A p \in Procs :
        (Done(p) /\ inv[p].result = "ValidationFailed") =>
            /\ WroteKeys(p) = {} /\ EmailsBy(p) = {}
            /\ \A i \in 1..Len(inv[p].calls) : inv[p].calls[i] \in ReadCalls
            /\ \A k \in DOMAIN private_bucket : \E q \in Procs \ {p} : k \in WroteKeys(q)

\* The latest validation of either command has failed: an attachment of a
\* create_rfq after the manufacturer lookup, and the author of a
\* post_message after the lookup of a stored RFQ.
C6_LateValidationFailed ==
    /\ \E p \in Procs :
          /\ Done(p) /\ inv[p].cmd = "post_message" /\ inv[p].result = "ValidationFailed"
          /\ inv[p].calls = <<"get_rfq_meta">>
    /\ private_bucket # EmptyBucket

(***************************************************************************)
(* C7. A notification that fails does not make the command fail: the       *)
(* command returns Ok and, when it has a key, stores its idempotency       *)
(* result.                                                                 *)
(***************************************************************************)
C7_NotificationFailureNotFatal ==
    \A p \in Procs :
        (Done(p) /\ inv[p].fault = "ses") =>
            /\ inv[p].result = "Ok"
            /\ IsSome(inv[p].key) => idempotency_key(Unwrap(inv[p].key)) \in WroteKeys(p)

(***************************************************************************)
(* C8. A create_rfq that returned Ok (not a replay) has put, in this       *)
(* order, the RfqMeta, a Status event RfqCreated by System, a Message      *)
(* event by Buyer with the body of the request and, if and only if the     *)
(* request supplied attachments, an Attachment event by Buyer; it has put  *)
(* no other event.                                                         *)
(***************************************************************************)
Supplied(request) ==
    IsSome(request.attachments) /\ Len(Unwrap(request.attachments)) > 0

PutsBeforeIndex(p) == SelectSeq(inv[p].wrote, LAMBDA k : IsMetaKey(k) \/ IsEventKey(k))

CreatedOk(p) ==
    Done(p) /\ inv[p].cmd = "create_rfq" /\ inv[p].result = "Ok" /\ ~inv[p].replayed

C8_InitialEventsInOrder ==
    \A p \in Procs :
        CreatedOk(p) =>
            LET request == CreateRfqRequests[inv[p].req]
                id == Unwrap(inv[p].rfq_id)
                puts == PutsBeforeIndex(p)
                event(i) == private_bucket[puts[i]]
            IN /\ Len(puts) = IF Supplied(request) THEN 4 ELSE 3
               /\ puts[1] = rfq_meta_key(id)
               /\ \A i \in 2..Len(puts) : IsEventKey(puts[i]) /\ puts[i][2] = id
               /\ JsonGet(event(2), "type") = "status"
               /\ JsonGet(event(2), "status") = "rfq_created"
               /\ JsonGet(event(2), "by") = "system"
               /\ JsonGet(event(3), "type") = "message"
               /\ JsonGet(event(3), "by") = "buyer"
               /\ JsonGet(event(3), "body") = request.body
               /\ Supplied(request) =>
                     /\ JsonGet(event(4), "type") = "attachment"
                     /\ JsonGet(event(4), "by") = "buyer"

(***************************************************************************)
(* C9. A create_rfq whose attachments list is present but empty behaves as *)
(* one without attachments: it puts no Attachment event and its index      *)
(* counts 2 events.                                                        *)
(***************************************************************************)
C9_EmptyAttachmentsAsAbsent ==
    \A p \in Procs :
        ( /\ CreatedOk(p)
          /\ CreateRfqRequests[inv[p].req].attachments = Some(<< >>)
          /\ \A q \in Procs : inv[q].cmd = "post_message" => inv[q].rfq_id # inv[p].rfq_id ) =>
            /\ \A k \in EventsWrittenBy(p) : JsonGet(private_bucket[k], "type") # "attachment"
            /\ Cardinality(EventsWrittenBy(p)) = 2
            /\ RfqIndex_from_json(private_bucket[rfq_index_key(Unwrap(inv[p].rfq_id))]).count = 2

(***************************************************************************)
(* C10. When no command is in flight (and no call to S3 or SES has         *)
(* failed), the last_event_ts of every stored RfqMeta is the ts of the     *)
(* latest event persisted for that RFQ.                                    *)
(***************************************************************************)
EventsOf(id) == {k \in DOMAIN private_bucket : IsEventKey(k) /\ k[2] = id}
EventTs(k) == parse_from_rfc3339(JsonGet(private_bucket[k], "ts"))
StoredMeta(id) == RfqMeta_from_json(private_bucket[rfq_meta_key(id)])

C10_LastEventTsIsLatest ==
    (Quiescent /\ faults = 0) =>
        \A id \in StoredRfqIds :
            EventsOf(id) # {} =>
                /\ \E k \in EventsOf(id) : EventTs(k) = StoredMeta(id).last_event_ts
                /\ \A k \in EventsOf(id) : EventTs(k) <= StoredMeta(id).last_event_ts

\* The other half of C10: the stored last_event_ts of an RFQ never decreases.
LastEventTsNeverDecreases ==
    [][ \A id \in StoredRfqIds :
          parse_from_rfc3339(JsonGet(private_bucket'[rfq_meta_key(id)], "last_event_ts"))
              >= StoredMeta(id).last_event_ts ]_vars
(***************************************************************************)
(* C11. Appends to one RFQ never collide: every event an invocation has    *)
(* saved is stored under its own key, with its own id, and no other save   *)
(* (of the same or of another invocation) went to that key, whatever the   *)
(* index says of the number of events.                                     *)
(***************************************************************************)
EventSaves == {<<p, i>> \in Procs \X (1..6) : i <= Len(inv[p].wrote) /\ IsEventKey(inv[p].wrote[i])}
SavedKey(s) == inv[s[1]].wrote[s[2]]
IndexCount(id) == JsonGet(private_bucket[rfq_index_key(id)], "count")

C11_AppendsNeverCollide ==
    \A s \in EventSaves :
        /\ SavedKey(s) \in DOMAIN private_bucket
        /\ JsonGet(private_bucket[SavedKey(s)], "id") = SavedKey(s)[5]
        /\ JsonGet(private_bucket[SavedKey(s)], "rfq_id") = SavedKey(s)[2]
        /\ \A t \in EventSaves : t # s => SavedKey(t) # SavedKey(s)

\* Two overlapping post_message calls to one RFQ have both returned Ok, and
\* the index counts fewer events than are stored.
C11_ConcurrentAppendsUndercounted ==
    \E p, q \in Procs :
        /\ p # q /\ Concurrent(p, q) /\ Done(p) /\ Done(q)
        /\ inv[p].cmd = "post_message" /\ inv[q].cmd = "post_message"
        /\ inv[p].result = "Ok" /\ inv[q].result = "Ok"
        /\ inv[p].rfq_id = inv[q].rfq_id
        /\ EventsWrittenBy(p) # {} /\ EventsWrittenBy(q) # {}
        /\ IndexCount(Unwrap(inv[p].rfq_id)) < Cardinality(EventsOf(Unwrap(inv[p].rfq_id)))

Listed ==
    /\ listing.cmd = "list_events" /\ ~listing.fault
    /\ RfqId_new(listing.rfq_id)
    /\ IsSome(listing.since) => since_parses(Unwrap(listing.since))

ItemTs(item) == parse_from_rfc3339(item.ts)

ItemLe(a, b) == ItemTs(a) < ItemTs(b) \/ (ItemTs(a) = ItemTs(b) /\ a.id <= b.id)

(***************************************************************************)
(* C13. list_events returns the events of an RFQ as an item list sorted by *)
(* non-decreasing (timestamp, id), whatever the order in which they were   *)
(* written to the store.                                                   *)
(***************************************************************************)
C13_ItemsInTimestampIdOrder ==
    (Listed /\ Quiescent /\ faults = 0) =>
        /\ listing.result = "Ok"
        /\ \A i, j \in 1..Len(listing.items) :
              i < j => ItemLe(listing.items[i], listing.items[j])

(***************************************************************************)
(* C14. Pagination is exact: list_events(limit = 1) followed, with no      *)
(* write in between, by list_events(since = next_since of the first page)  *)
(* returns exactly the events the first page did not: no event is in both  *)
(* pages and none of the stored events is in neither.                      *)
(***************************************************************************)
ItemIds(items) == {items[i].id : i \in 1..Len(items)}
StoredEventIds(id) == {k[5] : k \in EventsOf(id)}

\* The page a client gets next when it hands back the next_since of the
\* latest page.
FollowingPage == list_events(private_bucket, listing.rfq_id, listing.next_since, None, TRUE)

C14_PaginationExact ==
    (Listed /\ Quiescent /\ faults = 0 /\ listing.since = None /\ listing.limit = Some(1)
        /\ EventsOf(listing.rfq_id) # {}) =>
        /\ listing.result = "Ok" /\ Len(listing.items) = 1
        /\ FollowingPage.tag = "Ok"
        /\ ItemIds(listing.items) \cap ItemIds(FollowingPage.value.items) = {}
        /\ ItemIds(listing.items) \cup ItemIds(FollowingPage.value.items)
              = StoredEventIds(listing.rfq_id)

\* The cursor alone: a page asked for with since = t fetches no event stamped
\* t or earlier.  (It does: start_after is the key prefix of t's second.)
CursorSkipsEarlierEvents ==
    (Listed /\ IsSome(listing.since)) =>
        \A i \in 1..Len(listing.keys) :
            EventTs(listing.keys[i]) > parse_from_rfc3339(Unwrap(listing.since))

(***************************************************************************)
(* C15. Cursor progress: with no concurrent writer, a client that starts   *)
(* with list_events(since absent, limit n >= 1) and goes on with since =   *)
(* the next_since of the page before is eventually returned every stored   *)
(* event and eventually gets an empty page.  The first step of that: the   *)
(* first page of an RFQ that has events is returned and is not empty, and  *)
(* the page that follows it holds an event the first did not, or is empty. *)
(***************************************************************************)
C15_CursorProgress ==
    (Listed /\ Quiescent /\ faults = 0 /\ listing.since = None
        /\ IsSome(listing.limit) /\ Unwrap(listing.limit) >= 1
        /\ EventsOf(listing.rfq_id) # {}) =>
        /\ listing.result = "Ok" /\ listing.items # << >> /\ IsSome(listing.next_since)
        /\ LET next == list_events(private_bucket, listing.rfq_id, listing.next_since,
                                    listing.limit, TRUE)
           IN /\ next.tag = "Ok"
              /\ \/ next.value.items = << >>
                 \/ ItemIds(next.value.items) \ ItemIds(listing.items) # {}

(***************************************************************************)
(* C16. list_rfq_events skips a stored record that does not deserialize:   *)
(* the listing still succeeds and returns the events of the page whose     *)
(* records do deserialize.                                                 *)
(***************************************************************************)
Decodable(keys) ==
    {keys[i][5] : i \in {n \in 1..Len(keys) : RfqEvent_from_json(private_bucket[keys[n]]).ok}}

C16_UndecodableRecordSkipped ==
    (Listed /\ Quiescent /\ faults = 0) =>
        /\ listing.result = "Ok"
        /\ ItemIds(listing.items) = Decodable(listing.keys)

(***************************************************************************)
(* The sort of list_rfq_events orders any decoded events by timestamp and  *)
(* then id, and keeps them all.                                            *)
(***************************************************************************)
SortedByTimestampThenId ==
    sample.stage = "sorted" =>
        /\ \A i, j \in 1..Len(sample.events) :
              i < j => EventLe(sample.events[i], sample.events[j])
        /\ Len(sample.events) = Len(sample.keys)
        /\ \A e \in SampleEvents :
              Cardinality({i \in 1..Len(sample.events) : sample.events[i] = e})
                = Cardinality({i \in 1..Len(sample.keys) : sample.keys[i] = e})

(***************************************************************************)
(* C17. Whatever limit the caller asks for, a page has at most             *)
(* min(limit, 200) items, and at most 50 when no limit is given; a limit   *)
(* above 200 is clamped, not refused: the page is the one of limit 200.    *)
(***************************************************************************)
C17_PageSizeCapped ==
    sample.stage = "listed" =>
        /\ (IsSome(sample.limit) /\ Unwrap(sample.limit) >= 0) =>
              Len(sample.keys) <= Min(Unwrap(sample.limit), 200)
        /\ sample.limit = None => Len(sample.keys) <= 50
        /\ (IsSome(sample.limit) /\ Unwrap(sample.limit) > 200) =>
              Len(sample.keys) = Min(sample.stored, 200)
        /\ Len(sample.keys) <= sample.stored

\* A store of more than 200 events was listed with a limit above 200, and
\* the page has 200 keys.
C17_LargeLimitClamped ==
    /\ sample.stage = "listed"
    /\ IsSome(sample.limit) /\ Unwrap(sample.limit) > 200
    /\ sample.stored > 200 /\ Len(sample.keys) = 200

(***************************************************************************)
(* C18. In a list_events response next_since is absent exactly when items  *)
(* is empty; otherwise it is the timestamp of the last item, which no item *)
(* of the page exceeds.                                                    *)
(***************************************************************************)
C18_NextSinceIsLastTimestamp ==
    sample.stage = "response" =>
        LET r == Unwrap(sample.response) IN
        /\ r.next_since = None <=> r.items = << >>
        /\ r.items # << >> =>
              /\ r.next_since = Some(r.items[Len(r.items)].ts)
              /\ \A i \in 1..Len(r.items) :
                    ItemTs(r.items[i]) <= parse_from_rfc3339(Unwrap(r.next_since))

\* A response of several items, given out of order and with different
\* timestamps.
C18_SeveralItemsAnswered ==
    /\ sample.stage = "response"
    /\ Len(Unwrap(sample.response).items) >= 2
    /\ sample.keys # sample.events
    /\ sample.events[1].base.ts < sample.events[Len(sample.events)].base.ts

(***************************************************************************)
(* C19. Right after a successful create_rfq without attachments,           *)
(* list_events for the returned id returns exactly two items: first the    *)
(* Status event (rfq_created, by system), then the Message event (by       *)
(* buyer, with the body of the request).                                   *)
(***************************************************************************)
C19_TwoItemsAfterCreate ==
    \A p \in Procs :
        (CreatedOk(p) /\ CreateRfqRequests[inv[p].req].attachments = None
            /\ Listed /\ Quiescent /\ faults = 0
            /\ listing.rfq_id = Unwrap(inv[p].response).id
            /\ listing.since = None /\ listing.limit = None
            /\ \A q \in Procs \ {p} : ~Started(q)) =>
            /\ listing.result = "Ok"
            /\ Len(listing.items) = 2
            /\ listing.items[1].type = "status"
            /\ listing.items[1].status = "rfq_created"
            /\ listing.items[1].by = "system"
            /\ listing.items[2].type = "message"
            /\ listing.items[2].by = "buyer"
            /\ listing.items[2].body = CreateRfqRequests[inv[p].req].body

(***************************************************************************)
(* C20. In the items of list_events every status event's status is the     *)
(* snake_case name of its StatusType (rfq_created, vendor_viewed,          *)
(* vendor_replied, buyer_viewed, closed, archived) and every event's by is *)
(* buyer, manufacturer or system, after its author.                        *)
(***************************************************************************)
C20_StatusAndAuthorNames ==
    sample.stage = "response" =>
        \A i \in 1..Len(sample.events) :
            LET event == sample.events[i]
                item == Unwrap(sample.response).items[i]
            IN /\ item.by = EventAuthor_names[event.base.by]
               /\ event.variant = "status" => item.status = StatusType_names[event.status]

(***************************************************************************)
(* C21. Round trip of a stored event: for every RfqEvent of every variant, *)
(* deserializing the record save_rfq_event wrote succeeds and gives a      *)
(* value equal to the event that was saved.                                *)
(***************************************************************************)
\* The events invocation p holds and has saved so far.
SavedEventsOf(p) ==
    {e \in {Unwrap(o) : o \in {f \in {inv[p].status_event, inv[p].message_event,
                                       inv[p].attachment_event} : IsSome(f)}} :
        \E n \in 1..Len(inv[p].wrote) : inv[p].wrote[n] = rfq_event_key(e.base.rfq_id, e)}

C21_StoredEventRoundTrips ==
    \A p \in Procs : \A e \in SavedEventsOf(p) :
        LET read == RfqEvent_from_json(private_bucket[rfq_event_key(e.base.rfq_id, e)])
        IN read.ok /\ read.value = e

(***************************************************************************)
(* C22. A successful post_message on an existing RFQ, with no concurrent   *)
(* command on that RFQ, appends exactly one Message event authored by the  *)
(* resolved role; its index write stores the previous count + 1 (1 if      *)
(* there was no index) and the timestamp of the new event; it returns that *)
(* timestamp as ts; the next list_events returns the new event last; and   *)
(* after create_rfq without attachments and one post_message the index     *)
(* count is 3.                                                             *)
(***************************************************************************)
PostedOk(q) ==
    Done(q) /\ inv[q].cmd = "post_message" /\ inv[q].result = "Ok" /\ ~inv[q].replayed

StoredIndex(bucket, id) ==
    IF rfq_index_key(id) \in DOMAIN bucket
    THEN Some(RfqIndex_from_json(bucket[rfq_index_key(id)])) ELSE None

\* The one event q appended, as stored.
PostedEvent(q) == private_bucket[CHOOSE k \in EventsWrittenBy(q) : TRUE]

PostAppendsOneMessage(q) ==
    /\ Cardinality(EventsWrittenBy(q)) = 1
    /\ EventsWrittenBy(q) \subseteq EventsOf(Unwrap(inv[q].rfq_id))
    /\ PostedEvent(q)[1] = <<"type", "message">>
    /\ JsonGet(SelectSeq(PostedEvent(q), LAMBDA m : m[1] # "type"), "by")
          = PostMessageRequests[inv[q].req].by
    /\ Unwrap(inv[q].response).ts = JsonGet(PostedEvent(q), "ts")

PostBumpsIndex(q) ==
    (inv[q].cmd = "post_message" /\ inv[q].pc = "save_rfq_index" /\ inv'[q].pc = "notify") =>
        LET id == Unwrap(inv[q].rfq_id)
            before == StoredIndex(private_bucket, id)
            after == Unwrap(StoredIndex(private_bucket', id))
        IN /\ after.count = (IF IsSome(before) THEN Unwrap(before).count ELSE 0) + 1
           /\ after.last_event_ts = Unwrap(inv[q].message_event).base.ts

ListedAfterPost(q) ==
    (Listed /\ faults = 0 /\ listing.rfq_id = Unwrap(inv[q].rfq_id)
        /\ listing.since = None /\ listing.limit = None) =>
        /\ listing.result = "Ok"
        /\ Len(listing.items) > 0
        /\ {listing.items[Len(listing.items)].id} = {k[5] : k \in EventsWrittenBy(q)}

CountAfterCreateAndPost(q) ==
    \A p \in Procs :
        (CreatedOk(p) /\ CreateRfqRequests[inv[p].req].attachments = None
            /\ inv[q].rfq_id = Some(Unwrap(inv[p].response).id)) =>
            Unwrap(StoredIndex(private_bucket, Unwrap(inv[q].rfq_id))).count = 3

C22_PostMessageEffect ==
    [][\A q \in Procs :
          /\ PostBumpsIndex(q)
          /\ (PostedOk(q) /\ Quiescent)' =>
                (PostAppendsOneMessage(q) /\ CountAfterCreateAndPost(q)
                    /\ ListedAfterPost(q))']_vars

\* All of C22 but the listing.
PostMessageWrites ==
    [][\A q \in Procs :
          /\ PostBumpsIndex(q)
          /\ (PostedOk(q) /\ Quiescent)' =>
                (PostAppendsOneMessage(q) /\ CountAfterCreateAndPost(q))']_vars

\* A creation without attachments and then a message, both answered Ok.
PostedAfterCreate ==
    /\ CreatedOk(1) /\ CreateRfqRequests[inv[1].req].attachments = None
    /\ PostedOk(2) /\ inv[2].rfq_id = Some(Unwrap(inv[1].response).id)

(***************************************************************************)
(* C23. post_message on an RFQ id whose RfqMeta is absent returns NotFound *)
(* and appends no event, writes no index, sends no notification and stores *)
(* no idempotency record.                                                  *)
(***************************************************************************)
\* q is a post_message that has ended, addressed to an id without RfqMeta.
PostedToAbsentRfq(q) ==
    /\ Done(q) /\ inv[q].cmd = "post_message"
    /\ rfq_meta_key(Unwrap(inv[q].rfq_id)) \notin DOMAIN private_bucket

CreatedForAbsentManufacturer(p) ==
    /\ Done(p) /\ inv[p].cmd = "create_rfq"
    /\ \A k \in DOMAIN public_bucket :
          public_bucket[k].id # CreateRfqRequests[inv[p].req].manufacturer_id

AloneOnItsRfq(p) ==
    \A q \in Procs \ {p} : Started(q) => inv[q].rfq_id # Some(Unwrap(inv[p].response).id)

AttachmentEventsOf(p) ==
    {k \in EventsWrittenBy(p) : private_bucket[k][1] = <<"type", "attachment">>}

C25_IndexAfterCreate ==
    \A p \in Procs :
        (CreatedOk(p) /\ AloneOnItsRfq(p)) =>
            LET response == Unwrap(inv[p].response)
                stored == private_bucket[rfq_index_key(response.id)]
            IN /\ rfq_index_key(response.id) \in WroteKeys(p)
               /\ JsonGet(stored, "last_event_ts") = response.last_event_ts
               /\ JsonGet(stored, "count") = Cardinality(EventsWrittenBy(p))
               /\ JsonGet(stored, "count") = 2 + Cardinality(AttachmentEventsOf(p))
               /\ Cardinality(AttachmentEventsOf(p)) <= 1

\* A creation with an attachment has answered, after the clock moved.
C25_CreatedWithAttachment ==
    \E p \in Procs :
        /\ CreatedOk(p) /\ AloneOnItsRfq(p) /\ AttachmentEventsOf(p) # {}
        /\ Unwrap(inv[p].response).last_event_ts # to_rfc3339(0)

(***************************************************************************)
(* C26. The stored RfqIndex.count of an RFQ is monotonically increasing:   *)
(* under any interleaving of create_rfq and post_message invocations on    *)
(* the RFQ, no write to the index stores a count smaller than the count    *)
(* stored before it (here: in runs where no call fails).                   *)
(***************************************************************************)
C26_IndexCountNeverDecreases ==
    [][\A k \in DOMAIN private_bucket :
          (IsIndexKey(k) /\ faults' = 0) =>
              JsonGet(private_bucket'[k], "count") >= JsonGet(private_bucket[k], "count")]_vars

(***************************************************************************)
(* C27. In every reachable state, under any interleaving of commands and   *)
(* any crash or failure between steps, the stored RfqIndex.count of an RFQ *)
(* is at most the number of events persisted for that RFQ: races on the    *)
(* index and partial failures undercount, they never overcount.            *)
(***************************************************************************)
C27_IndexCountAtMostEvents ==
    \A k \in DOMAIN private_bucket :
        IsIndexKey(k) => JsonGet(private_bucket[k], "count") <= Cardinality(EventsOf(k[2]))

\* The index undercounts after a race, with nothing in flight and no failure.
C27_UndercountAfterRace ==
    /\ Quiescent /\ faults = 0
    /\ \E k \in DOMAIN private_bucket :
          IsIndexKey(k) /\ JsonGet(private_bucket[k], "count") < Cardinality(EventsOf(k[2]))

\* The index undercounts after a failure: a message was appended to an RFQ
\* whose creation failed before it wrote the index.
UndercountAfterFailure ==
    /\ Quiescent /\ faults > 0
    /\ \E k \in DOMAIN private_bucket :
          IsIndexKey(k) /\ JsonGet(private_bucket[k], "count") = 1
              /\ Cardinality(EventsOf(k[2])) = 3

(***************************************************************************)
(* C28. When a command crashed or failed after save_rfq_event succeeded    *)
(* and before it updated the index, the event stays stored and a           *)
(* subsequent list_events returns it: the listing depends on the event     *)
(* records only, not on the presence or content of RfqIndex.               *)
(***************************************************************************)
\* p ended by a failure or was abandoned after it saved an event and before
\* it wrote the index.
FailedBeforeIndex(p) ==
    /\ Done(p) /\ inv[p].fault # "none"
    /\ EventsWrittenBy(p) # {}
    /\ \A k \in WroteKeys(p) : ~IsIndexKey(k)

C28_EventListedWithoutIndex ==
    \A p \in Procs :
        (FailedBeforeIndex(p) /\ Listed /\ Quiescent
            /\ listing.rfq_id = Unwrap(inv[p].rfq_id)
            /\ listing.since = None /\ listing.limit = None) =>
            /\ EventsWrittenBy(p) \subseteq EventsOf(listing.rfq_id)
            /\ listing.result = "Ok"
            /\ {k[5] : k \in EventsWrittenBy(p)} \subseteq ItemIds(listing.items)

\* The events of a command that failed before its index write are stored,
\* and the listing asks S3 for them, whatever the index says.
EventFetchedWithoutIndex ==
    \A p \in Procs :
        (FailedBeforeIndex(p) /\ Listed /\ Quiescent
            /\ listing.rfq_id = Unwrap(inv[p].rfq_id)
            /\ listing.since = None /\ listing.limit = None) =>
            /\ EventsWrittenBy(p) \subseteq EventsOf(listing.rfq_id)
            /\ EventsWrittenBy(p) \subseteq {listing.keys[i] : i \in 1..Len(listing.keys)}

(***************************************************************************)
(* C29. No rollback: once create_rfq has saved RfqMeta, or post_message    *)
(* its event, a failure of a later step (event append, index update,       *)
(* notification, idempotency store) leaves every earlier write of the      *)
(* invocation in the store unchanged; no step of a command deletes or      *)
(* reverts what the command wrote before.                                  *)
(***************************************************************************)
\* p takes a step.
Steps(p) == InFlight(p) /\ inv'[p] # inv[p]

C29_NoRollback ==
    [][\A p \in Procs :
          Steps(p) =>
              /\ \A k \in WroteKeys(p) :
                    k \in DOMAIN private_bucket' /\ private_bucket'[k] = private_bucket[k]
              /\ (inv'[p].pc = "done" /\ inv'[p].fault # "none") =>
                    /\ private_bucket' = private_bucket
                    /\ inv'[p].wrote = inv[p].wrote]_vars

\* A creation has failed at its last step, the idempotency store, with the
\* RfqMeta, the events and the index it wrote before still in the store, and
\* a message was appended to its RFQ.
C29_FailedAfterWrites ==
    \E p, q \in Procs :
        /\ Done(p) /\ inv[p].cmd = "create_rfq" /\ inv[p].fault = "s3"
        /\ inv[p].calls[Len(inv[p].calls)] = "store_idempotency"
        /\ Cardinality(WroteKeys(p)) >= 4
        /\ WroteKeys(p) \subseteq DOMAIN private_bucket
        /\ Started(q) /\ inv[q].cmd = "post_message" /\ EventsWrittenBy(q) # {}

(***************************************************************************)
(* C30. For get_rfq_meta, get_rfq_index and get_manufacturer: a missing    *)
(* key yields Ok(None), and every other failure of the store (a body that  *)
(* cannot be read or deserialized included) yields Internal; a missing key *)
(* is never reported as an error and another failure never as None.  A     *)
(* lookup that meets no failure returns the object that was stored.        *)
(***************************************************************************)
C30_MissingKeyIsNoneElseInternal ==
    sample.stage = "looked_up" =>
        LET result == Unwrap(sample.result)
            missing == ~sample.present /\ sample.failure # "service"
            failed == sample.failure = "service"
                      \/ (sample.present /\ (sample.failure = "body"
                                               \/ ~IsSome(sample.body.from)))
        IN /\ missing => result = [tag |-> "Ok", value |-> None]
           /\ result = [tag |-> "Ok", value |-> None] => missing
           /\ failed <=> result = [tag |-> "Err", err |-> "Internal"]
           /\ (~missing /\ ~failed) => result = [tag |-> "Ok", value |-> sample.body.from]

\* get_rfq_index has answered Ok(None) for a missing key, with an object
\* under another key in the bucket.
C30_MissingKeyAnswered ==
    /\ sample.stage = "looked_up" /\ ~sample.present /\ sample.failure = "none"
    /\ sample.getter = "get_rfq_index"
    /\ Unwrap(sample.result) = [tag |-> "Ok", value |-> None]

\* A body that does not deserialize was answered with Internal.
UndeserializableIsInternal ==
    /\ sample.stage = "looked_up" /\ sample.present /\ sample.failure = "none"
    /\ ~IsSome(sample.body.from)
    /\ Unwrap(sample.result) = [tag |-> "Err", err |-> "Internal"]

(***************************************************************************)
(* C31. When the read of the idempotency record fails with anything but a  *)
(* missing key, create_rfq and post_message return Internal and do none of *)
(* their remaining steps: no validation result, no write, no notification. *)
(* Only a record that is definitely missing lets the command go on as a    *)
(* first execution.                                                        *)
(***************************************************************************)
\* q begins under a key and consults the idempotency store.
ConsultsStore(q) == Begins(q) /\ IsSome(inv'[q].key) /\ ~InvalidPathId(inv'[q])

C31_AmbiguousCheckIsInternal ==
    [][\A q \in Procs :
          ConsultsStore(q) =>
              /\ faults' # faults =>
                    /\ inv'[q].pc = "done" /\ inv'[q].result = "Internal"
                    /\ inv'[q].calls = <<"check_idempotency">>
                    /\ NoSideEffect(q)
              /\ (inv'[q].pc # "done" \/ inv'[q].result = "ValidationFailed") =>
                    faults' = faults /\ ~RecordFound(inv'[q])]_vars

\* The check of a create_rfq whose request is invalid has failed, and the
\* command returned Internal.
C31_CheckFailed ==
    \E q \in Procs :
        /\ Done(q) /\ inv[q].fault = "s3" /\ inv[q].calls = <<"check_idempotency">>
        /\ inv[q].result = "Internal"
        /\ inv[q].cmd = "create_rfq" /\ ~create_rfq_validate(CreateRfqRequests[inv[q].req])

(***************************************************************************)
(* C32. Every error a handler returns reaches the caller as the envelope   *)
(* {code, message} with the status of its kind (ValidationFailed and       *)
(* InvalidInput 400, NotFound 404, Conflict 409, Internal 500), and for an *)
(* Internal error, on every endpoint, the message is the fixed redacted    *)
(* text, never the text of the storage backend.                            *)
(***************************************************************************)
StatusOfKind ==
    [InvalidInput |-> 400, ValidationFailed |-> 400, NotFound |-> 404, Conflict |-> 409,
     Internal |-> 500]

Answered == sample.stage = "answered"
AnswerOf(name) == JsonGet(Unwrap(sample.response).body, name)

C32_EnvelopeAndRedaction ==
    Answered =>
        /\ Unwrap(sample.response).status = StatusOfKind[sample.err.kind]
        /\ JsonHas(Unwrap(sample.response).body, "code")
        /\ JsonHas(Unwrap(sample.response).body, "message")
        /\ sample.err.kind = "Internal" =>
              /\ AnswerOf("message") = <<"An internal error occurred">>
              /\ \A i \in 1..Len(AnswerOf("message")), j \in 1..Len(sample.err.msg) :
                    AnswerOf("message")[i] # sample.err.msg[j]

\* The same, for the four RFQ endpoints.
RfqErrorsRedacted ==
    (Answered /\ sample.endpoint \in RfqEndpoints) =>
        /\ Unwrap(sample.response).status = StatusOfKind[sample.err.kind]
        /\ sample.err.kind = "Internal" =>
              AnswerOf("message") = <<"An internal error occurred">>
        /\ sample.err.kind # "Internal" => AnswerOf("message") = sample.err.msg

(***************************************************************************)
(* C33. get_rfq and list_events are read-only: whatever the input and the  *)
(* state, the stored metas, events, indexes and idempotency records are    *)
(* the same before and after the call and no notification is sent; and     *)
(* get_rfq of a well-formed id with no stored RfqMeta finds nothing (the   *)
(* lookup's Ok(None), the handler's 404), which is not an error of the     *)
(* store.                                                                  *)
(***************************************************************************)
Reads == listing' # listing

C33_ReadsAreReadOnly ==
    [][Reads =>
          /\ private_bucket' = private_bucket
          /\ public_bucket' = public_bucket
          /\ outbox' = outbox
          /\ inv' = inv
          /\ (/\ listing'.cmd = "get_rfq" /\ ~listing'.fault
              /\ RfqId_new(listing'.rfq_id)
              /\ rfq_meta_key(listing'.rfq_id) \notin DOMAIN private_bucket) =>
                 /\ get_rfq_meta(private_bucket, listing'.rfq_id, "none")
                        = [tag |-> "Ok", value |-> None]
                 /\ listing'.result = "NotFound"
                 /\ listing'.meta = None]_vars

C33_MissingRfqRead ==
    /\ listing.cmd = "get_rfq" /\ listing.rfq_id = MissingRfqId
    /\ listing.result = "NotFound"
    /\ StoredRfqIds # {} /\ outbox # {}
    /\ \E k \in DOMAIN private_bucket : IsEventKey(k)
    /\ \E k \in DOMAIN private_bucket : IsIdemKey(k)

(***************************************************************************)
(* C34. FileSize::new(n) succeeds exactly when 1 <= n <= 15*1024*1024      *)
(* (15728640): it fails with ValidationFailed for 0 and for 15728641,      *)
(* succeeds for 15728640, and on success as_u64() returns n.               *)
(***************************************************************************)
SizeBuilt == sample.stage \in {"built", "read"}
SizeResult == Unwrap(sample.result)

C34_FileSizeBounds ==
    /\ MAX_SIZE_BYTES = 15728640
    /\ SizeBuilt =>
          /\ SizeResult.tag = "Ok" <=> (1 <= sample.size_bytes /\ sample.size_bytes <= 15728640)
          /\ SizeResult.tag = "Err" => SizeResult.err = "ValidationFailed"
          /\ sample.size_bytes \in {0, 15728641} => SizeResult.tag = "Err"
          /\ sample.size_bytes = 15728640 => SizeResult.tag = "Ok"
    /\ sample.stage = "read" => sample.as_u64 = Some(sample.size_bytes)

C34_LargestSizeRead ==
    /\ sample.stage = "read" /\ sample.size_bytes = 15728640
    /\ sample.as_u64 = Some(15728640)

(***************************************************************************)
(* C35. The stored RfqIndex.last_event_ts of an RFQ never decreases: under *)
(* any interleaving of create_rfq and post_message invocations on the RFQ, *)
(* each event stamped from a clock that never goes back, every write to    *)
(* the index stores a last_event_ts greater than or equal to the one       *)
(* stored before it (here: in runs where no call fails).                   *)
(***************************************************************************)
C35_IndexTsNeverDecreases ==
    [][\A k \in DOMAIN private_bucket :
          (IsIndexKey(k) /\ faults' = 0) =>
              RfqIndex_from_json(private_bucket'[k]).last_event_ts
                  >= RfqIndex_from_json(private_bucket[k]).last_event_ts]_vars

(***************************************************************************)
(* C36. An idempotency record is stored only as the last step of a fully   *)
(* successful command: in every reachable state, if a record holds a       *)
(* create_rfq response then the RfqMeta, the initial events (the Status    *)
(* event and the buyer's Message event) and the RfqIndex of the RFQ id in  *)
(* the response are persisted; if it holds a post_message response then a  *)
(* Message event with the stored ts is persisted and the index of its RFQ  *)
(* was written.                                                            *)
(***************************************************************************)
Records == {k \in DOMAIN private_bucket : IsIdemKey(k)}
RecordResponse(k) == JsonGet(private_bucket[k], "response")
EventsOfType(id, type) == {k \in EventsOf(id) : private_bucket[k][1] = <<"type", type>>}

CreateRecordComplete(response) ==
    /\ rfq_meta_key(response.id) \in DOMAIN private_bucket
    /\ EventsOfType(response.id, "status") # {}
    /\ EventsOfType(response.id, "message") # {}
    /\ rfq_index_key(response.id) \in DOMAIN private_bucket

PostRecordComplete(response) ==
    \E id \in StoredRfqIds :
        /\ \E k \in EventsOfType(id, "message") : JsonGet(private_bucket[k], "ts") = response.ts
        /\ rfq_index_key(id) \in DOMAIN private_bucket

C36_RecordOnlyAfterSuccess ==
    \A k \in Records :
        LET created == CreateRfqResponse_from_json(RecordResponse(k))
            posted == PostMessageResponse_from_json(RecordResponse(k))
        IN /\ created.ok \/ posted.ok
           /\ created.ok => CreateRecordComplete(created.value)
           /\ posted.ok => PostRecordComplete(posted.value)

\* A create_rfq and a post_message raced with one key: the record of the
\* message was stored first and the record of the creation replaced it.
C36_RecordsStored ==
    \E p, q \in Procs :
        /\ CreatedOk(p) /\ PostedOk(q) /\ inv[p].key = inv[q].key /\ IsSome(inv[p].key)
        /\ inv[p].calls[Len(inv[p].calls)] = "store_idempotency"
        /\ inv[q].calls[Len(inv[q].calls)] = "store_idempotency"
        /\ \E k \in Records : CreateRfqResponse_from_json(RecordResponse(k)).ok

(***************************************************************************)
(* C37. No orphan records: in every reachable state, also after a crash or *)
(* a failure between any two steps, every persisted RfqEvent and every     *)
(* persisted RfqIndex belongs to an RFQ whose RfqMeta is persisted.        *)
(***************************************************************************)
C37_NoOrphans ==
    \A k \in DOMAIN private_bucket :
        (IsEventKey(k) \/ IsIndexKey(k)) =>
            /\ rfq_meta_key(k[2]) \in DOMAIN private_bucket
            /\ IsEventKey(k) => JsonGet(private_bucket[k], "rfq_id") = k[2]

\* A creation stopped after its first event and a message stopped after its
\* event, before its index write.
C37_StoppedBetweenSteps ==
    \E p, q \in Procs :
        /\ Done(p) /\ inv[p].cmd = "create_rfq" /\ inv[p].fault # "none"
        /\ Cardinality(EventsWrittenBy(p)) = 1
        /\ inv[q].cmd = "post_message" /\ inv[q].pc = "get_rfq_index"
        /\ EventsWrittenBy(q) # {}
        /\ Unwrap(inv[q].rfq_id) = Unwrap(inv[p].rfq_id)

(***************************************************************************)
(* C38. Once an idempotency record (body hash, response) has been stored   *)
(* for a key, it is never replaced by a record with a different body hash  *)
(* or a different response, under any sequence or interleaving of commands *)
(* that use the key (here: in runs where no call fails).                   *)
(***************************************************************************)
C38_RecordNeverReplaced ==
    [][\A k \in Records :
          faults' = 0 =>
              /\ JsonGet(private_bucket'[k], "body_hash") = JsonGet(private_bucket[k], "body_hash")
              /\ JsonGet(private_bucket'[k], "response") = RecordResponse(k)]_vars

(***************************************************************************)
(* C39. The post_message idempotency hash covers the request payload (by,  *)
(* body, attachments) and not the RFQ id: after a successful post_message  *)
(* to RFQ A under key k, a post_message under the same key with the same   *)
(* payload to another existing RFQ B is answered with A's cached ts,       *)
(* appends no event to B and does not touch B's index.                     *)
(***************************************************************************)
\* q posts to another stored RFQ what p posted before it, under p's key.
RepostedElsewhere(p, q) ==
    /\ PostedOk(p) /\ IsSome(inv[p].key)
    /\ Done(q) /\ inv[q].cmd = "post_message" /\ p \in inv[q].pre
    /\ inv[q].key = inv[p].key /\ inv[q].req = inv[p].req
    /\ inv[q].rfq_id # inv[p].rfq_id
    /\ Unwrap(inv[q].rfq_id) \in StoredRfqIds
    /\ inv[q].fault = "none"

C39_ReplayedAcrossRfqs ==
    \A p, q \in Procs :
        RepostedElsewhere(p, q) =>
            /\ inv[q].result = "Ok" /\ inv[q].replayed
            /\ inv[q].response = inv[p].response
            /\ inv[q].calls = <<"check_idempotency">>
            /\ inv[q].wrote = << >>
            /\ EventsWrittenBy(q) = {}
            /\ rfq_index_key(Unwrap(inv[q].rfq_id)) \notin WroteKeys(q)
            /\ compute_message_hash(PostMessageRequests[inv[q].req])
                   = JsonGet(private_bucket[idempotency_key(Unwrap(inv[q].key))], "body_hash")

C39_RepostedToOtherRfq ==
    \E p, q \in Procs :
        /\ RepostedElsewhere(p, q)
        /\ rfq_index_key(Unwrap(inv[q].rfq_id)) \in DOMAIN private_bucket
        /\ Cardinality(EventsOf(Unwrap(inv[q].rfq_id))) = 2
        /\ Cardinality(EventsOf(Unwrap(inv[p].rfq_id))) = 3

(***************************************************************************)
(* C40. post_message appends exactly one event per successful first        *)
(* execution, always a Message event, and increments the index count by    *)
(* exactly 1, whatever the attachments field of the request contains: the  *)
(* attachments are neither validated (ValidationFailed comes only from the *)
(* path id, the body and the author) nor persisted as an Attachment event. *)
(***************************************************************************)
PostRequestOf(q) == PostMessageRequests[inv[q].req]

PostWritesOneMessage(q) ==
    /\ Cardinality(EventsWrittenBy(q)) = 1
    /\ PostedEvent(q)[1] = <<"type", "message">>
    /\ ~JsonHas(PostedEvent(q), "attachments")
    /\ JsonGet(PostedEvent(q), "body") = PostRequestOf(q).body
    /\ WroteKeys(q) = EventsWrittenBy(q) \cup {rfq_index_key(Unwrap(inv[q].rfq_id))}
                         \cup (IF IsSome(inv[q].key)
                               THEN {idempotency_key(Unwrap(inv[q].key))} ELSE {})

PostValidatesNoAttachment(q) ==
    (Done(q) /\ inv[q].cmd = "post_message" /\ inv[q].result = "ValidationFailed") =>
        \/ ~RfqId_new(Unwrap(inv[q].rfq_id))
        \/ ~MessageBody_new(PostRequestOf(q).body)
        \/ parse_author(PostRequestOf(q).by) = None

PostAddsOneToCount(q) ==
    (inv[q].cmd = "post_message" /\ inv[q].pc = "save_rfq_index" /\ inv'[q].pc = "notify") =>
        LET id == Unwrap(inv[q].rfq_id)
            before == StoredIndex(private_bucket, id)
        IN Unwrap(StoredIndex(private_bucket', id)).count
              = (IF IsSome(before) THEN Unwrap(before).count ELSE 0) + 1

C40_PostIgnoresAttachments ==
    [][\A q \in Procs :
          /\ PostAddsOneToCount(q)
          /\ PostValidatesNoAttachment(q)'
          /\ PostedOk(q)' => PostWritesOneMessage(q)']_vars

C40_PostedWithBadAttachment ==
    \E q \in Procs :
        /\ PostedOk(q)
        /\ IsSome(PostRequestOf(q).attachments)
        /\ \E i \in 1..Len(Unwrap(PostRequestOf(q).attachments)) :
              ~FileSize_new(Unwrap(PostRequestOf(q).attachments)[i].size_bytes)
        /\ Unwrap(StoredIndex(private_bucket, Unwrap(inv[q].rfq_id))).count = 3

====
